---- MODULE Spec2Model ----
(***************************************************************************)
(* Model of the decision-and-execution pipeline of crypto-smallcap-trader: *)
(*   - the rule engine (evaluateRules and its ten rules),                  *)
(*   - the risk manager's exit check (RiskManager.checkExitConditions),    *)
(*   - the Jupiter execution client (JupiterClient.executeSwap and         *)
(*     sendAndConfirmTransaction).                                         *)
(* Each component has its own specification (SpecRules, SpecRisk,          *)
(* SpecSwap); the variables of the other components stay at their initial  *)
(* value.                                                                  *)
(*                                                                         *)
(* Numbers: sentimentScore is in hundredths (0.6 is 60), the 24h changes   *)
(* and P&L are whole percents, confidences are in thousandths (0.85 is     *)
(* 850), times are milliseconds.                                           *)
(***************************************************************************)
EXTENDS Integers, Sequences, FiniteSets, TLC

VARIABLES
    ruleCtx,        \* RuleContext handed to evaluateRules
    ruleResult,     \* <<>> before the call, <<RulesEngineResult>> after it
    riskConfig,     \* RiskManager.config
    portfolio,      \* Portfolio handed to checkExitConditions
    exitDecisions,  \* <<>> before the call, <<Decision[]>> after it
    assessArgs,     \* <<>> or <<[action, onChainData, portfolio]>>: the arguments of assessRisk
    assessments,    \* history: one entry per assessRisk call, with its return value
    configEpoch,    \* history: number of updateConfig calls so far
    sizeArgs,       \* <<>> or <<[confidence, portfolio, riskAssessment]>>
    positionSize,   \* <<>> before calculatePositionSize, <<{percent, amountUSD}>> after it
    swapPc,         \* position of the executeSwap call
    swapCfg,        \* JupiterClient.config
    swapParams,     \* SwapParams of the call
    quote,          \* const quote of executeSwap (step 1)
    buildQuote,     \* the quoteResponse handed to swapPost (step 2)
    transaction,    \* the VersionedTransaction of step 3
    attempt,        \* loop variable of sendAndConfirmTransaction
    signature,      \* signature returned by sendRawTransaction
    lastError,      \* lastError of sendAndConfirmTransaction
    swapResults,    \* the SwapResults returned by the call, in order
    swapLog,        \* history: requests sent to the quote API, the swap API, the signer, the RPC
    attemptErrors,  \* history: the error that ended each failed attempt
    waitedMs,       \* time spent so far in the pending confirmTransaction
    logger,         \* <<>> or <<TransactionLogger>>: its logs
    desk,           \* <<>> or <<the portfolio the trading cycles share, and the cycles>>
    ledger,         \* <<>> or <<the open positions of PositionManager and its last signals>>
    vault,          \* <<>> or <<a wallet, its encrypted form and what decryption returned>>
    limiter,        \* <<>> or <<a scraper: clock, lastRequestTime, callers, requests sent>>
    pool            \* <<>> or <<the reserves of a pool and the results of calculatePriceImpact>>

ruleVars == <<ruleCtx, ruleResult>>
assessVars == <<assessArgs, assessments, configEpoch, sizeArgs, positionSize>>
riskVars == <<riskConfig, portfolio, exitDecisions, assessVars>>
swapVars == <<swapPc, swapCfg, swapParams, quote, buildQuote, transaction, attempt,
              signature, lastError, swapResults, swapLog, attemptErrors, waitedMs>>
compVars == <<logger, desk, ledger, vault, limiter, pool>>
vars == <<ruleVars, riskVars, swapVars, compVars>>

\* None of the stand-alone components is in use.
CompIdle ==
    /\ logger = <<>>
    /\ desk = <<>>
    /\ ledger = <<>>
    /\ vault = <<>>
    /\ limiter = <<>>
    /\ pool = <<>>

Abs(x) == IF x < 0 THEN -x ELSE x
Min(a, b) == IF a <= b THEN a ELSE b

RECURSIVE SumSeq(_)
SumSeq(s) == IF s = <<>> THEN 0 ELSE Head(s) + SumSeq(Tail(s))

(***************************************************************************)
(* Rule engine                                                             *)
(***************************************************************************)

Tokens == {"T1", "T2"}

hasPosition(ctx) ==
    \E i \in 1..Len(ctx.portfolio.positions) :
        ctx.portfolio.positions[i].tokenAddress = ctx.onChainData.tokenAddress

RuleResult(a, c, n) == [triggered |-> TRUE, action |-> a, confidence |-> c, ruleName |-> n]

\* A numeric snapshot field that is NaN.  A missing field reads as undefined,
\* which every comparison and product below treats as it treats NaN.
NaN == -(2^20)

\* The relational operators of JavaScript: false when an operand is NaN.
Gt(a, b) == a # NaN /\ b # NaN /\ a > b
Lt(a, b) == a # NaN /\ b # NaN /\ a < b
Ge(a, b) == a # NaN /\ b # NaN /\ a >= b

Times(a, k) == IF a = NaN THEN NaN ELSE a * k
MathAbs(a) == IF a = NaN THEN NaN ELSE Abs(a)

HasNaN(ctx) ==
    \/ ctx.socialSignal.sentimentScore = NaN
    \/ ctx.socialSignal.trendDirection = "undefined"
    \/ ctx.socialSignal.influencerMentions = NaN
    \/ \E f \in {"priceChange24h", "volumeChange24h", "holderChange24h", "liquidityChange24h",
                  "buyCount24h", "sellCount24h"} : ctx.onChainData[f] = NaN

\* A rule yields <<>> for null and <<result>> for a RuleResult.
strongSentimentBuy(ctx) ==
    IF /\ Gt(ctx.socialSignal.sentimentScore, 60)
       /\ ctx.socialSignal.trendDirection = "rising"
       /\ Lt(ctx.onChainData.priceChange24h, 50)
    THEN <<RuleResult("BUY", 700 + ctx.socialSignal.sentimentScore * 2, "STRONG_SENTIMENT_BUY")>>
    ELSE <<>>

influencerMentionBuy(ctx) ==
    IF /\ Ge(ctx.socialSignal.influencerMentions, 2)
       /\ Gt(ctx.socialSignal.sentimentScore, 30)
       /\ Gt(ctx.onChainData.volumeChange24h, 50)
       /\ Gt(ctx.onChainData.buyCount24h, ctx.onChainData.sellCount24h)
    THEN <<RuleResult("BUY", 650 + Min(ctx.socialSignal.influencerMentions * 50, 200),
                      "INFLUENCER_MENTION_BUY")>>
    ELSE <<>>

volumeBreakoutBuy(ctx) ==
    IF /\ Gt(ctx.onChainData.volumeChange24h, 200)
       /\ Gt(Times(ctx.onChainData.buyCount24h, 2), Times(ctx.onChainData.sellCount24h, 3))
       /\ Gt(ctx.socialSignal.sentimentScore, 20)
       /\ Gt(ctx.onChainData.holderChange24h, 0)
    THEN <<RuleResult("BUY", 600, "VOLUME_BREAKOUT_BUY")>>
    ELSE <<>>

accumulationBuy(ctx) ==
    IF /\ Gt(ctx.onChainData.holderChange24h, 5)
       /\ Lt(MathAbs(ctx.onChainData.priceChange24h), 10)
       /\ Gt(ctx.onChainData.liquidityChange24h, 0)
       /\ Gt(ctx.socialSignal.sentimentScore, 0)
       /\ ctx.socialSignal.trendDirection # "falling"
    THEN <<RuleResult("BUY", 550, "ACCUMULATION_BUY")>>
    ELSE <<>>

strongSentimentSell(ctx) ==
    IF /\ hasPosition(ctx)
       /\ Lt(ctx.socialSignal.sentimentScore, -50)
       /\ ctx.socialSignal.trendDirection = "falling"
    THEN <<RuleResult("SELL", 700 + Abs(ctx.socialSignal.sentimentScore) * 2,
                      "STRONG_SENTIMENT_SELL")>>
    ELSE <<>>

liquidityDrainSell(ctx) ==
    IF hasPosition(ctx) /\ Lt(ctx.onChainData.liquidityChange24h, -30)
    THEN <<RuleResult("SELL", 900, "LIQUIDITY_DRAIN_SELL")>>
    ELSE <<>>

whaleDumpSell(ctx) ==
    IF /\ hasPosition(ctx)
       /\ Gt(ctx.onChainData.sellCount24h, Times(ctx.onChainData.buyCount24h, 2))
       /\ Lt(ctx.onChainData.priceChange24h, -20)
       /\ Gt(ctx.onChainData.volumeChange24h, 100)
    THEN <<RuleResult("SELL", 850, "WHALE_DUMP_SELL")>>
    ELSE <<>>

holderExodusSell(ctx) ==
    IF hasPosition(ctx) /\ Lt(ctx.onChainData.holderChange24h, -10)
    THEN <<RuleResult("SELL", 750, "HOLDER_EXODUS_SELL")>>
    ELSE <<>>

uncertainHold(ctx) ==
    LET sentimentNeutral == Lt(MathAbs(ctx.socialSignal.sentimentScore), 20)
        priceStable == Lt(MathAbs(ctx.onChainData.priceChange24h), 5)
        volumeNormal == Lt(MathAbs(ctx.onChainData.volumeChange24h), 50)
    IN  IF sentimentNeutral /\ priceStable /\ volumeNormal
        THEN <<RuleResult("HOLD", 600, "UNCERTAIN_HOLD")>>
        ELSE <<>>

conflictingSignalsHold(ctx) ==
    LET sentimentBullish == Gt(ctx.socialSignal.sentimentScore, 30)
        priceBearish == Lt(ctx.onChainData.priceChange24h, -10)
        sentimentBearish == Lt(ctx.socialSignal.sentimentScore, -30)
        priceBullish == Gt(ctx.onChainData.priceChange24h, 10)
    IN  IF (sentimentBullish /\ priceBearish) \/ (sentimentBearish /\ priceBullish)
        THEN <<RuleResult("HOLD", 500, "CONFLICTING_SIGNALS_HOLD")>>
        ELSE <<>>

\* The results of ALL_RULES in the order of the list, nulls dropped.
ALL_RULES(ctx) ==
    liquidityDrainSell(ctx) \o whaleDumpSell(ctx) \o holderExodusSell(ctx)
        \o strongSentimentSell(ctx)
        \o strongSentimentBuy(ctx) \o influencerMentionBuy(ctx) \o volumeBreakoutBuy(ctx)
        \o accumulationBuy(ctx)
        \o conflictingSignalsHold(ctx) \o uncertainHold(ctx)

ByAction(rules, a) == SelectSeq(rules, LAMBDA r : r.action = a)

\* A variant that lets a clean BUY win over SELL.
selectRulesBuyFirst(sellRules, buyRules, holdRules) ==
    IF Len(buyRules) > 0 /\ Len(holdRules) = 0
    THEN [selectedRules |-> buyRules, action |-> "BUY", branch |-> "buy"]
    ELSE IF Len(sellRules) > 0
    THEN [selectedRules |-> sellRules, action |-> "SELL", branch |-> "sell"]
    ELSE IF Len(holdRules) > 0
    THEN [selectedRules |-> holdRules, action |-> "HOLD", branch |-> "hold"]
    ELSE [selectedRules |-> buyRules, action |-> "BUY", branch |-> "fallback"]

\* A variant that drops the "no HOLD rule" condition of the BUY branch.
selectRulesBuyOverHold(sellRules, buyRules, holdRules) ==
    IF Len(sellRules) > 0
    THEN [selectedRules |-> sellRules, action |-> "SELL", branch |-> "sell"]
    ELSE IF Len(buyRules) > 0
    THEN [selectedRules |-> buyRules, action |-> "BUY", branch |-> "buy"]
    ELSE IF Len(holdRules) > 0
    THEN [selectedRules |-> holdRules, action |-> "HOLD", branch |-> "hold"]
    ELSE [selectedRules |-> buyRules, action |-> "BUY", branch |-> "fallback"]

\* The if/else chain of evaluateRules; branch names the branch that was taken.
selectRules(sellRules, buyRules, holdRules) ==
    IF Len(sellRules) > 0
    THEN [selectedRules |-> sellRules, action |-> "SELL", branch |-> "sell"]
    ELSE IF Len(buyRules) > 0 /\ Len(holdRules) = 0
    THEN [selectedRules |-> buyRules, action |-> "BUY", branch |-> "buy"]
    ELSE IF Len(holdRules) > 0
    THEN [selectedRules |-> holdRules, action |-> "HOLD", branch |-> "hold"]
    ELSE [selectedRules |-> buyRules, action |-> "BUY", branch |-> "fallback"]

\* avgConfidence = confSum / confLen, kept as a fraction; the thresholds are
\* compared exactly: sum/len >= 0.85 iff sum >= 850 * len.
confidenceLevelOf(confSum, confLen) ==
    IF confSum >= 850 * confLen THEN "VERY_HIGH"
    ELSE IF confSum >= 700 * confLen THEN "HIGH"
    ELSE IF confSum >= 500 * confLen THEN "MEDIUM"
    ELSE "LOW"

\* A variant whose default is a HOLD of medium confidence.
defaultHoldMedium ==
    [suggestedAction |-> "HOLD", confSum |-> 500, confLen |-> 1,
     confidenceLevel |-> "MEDIUM", triggeredRules |-> <<>>,
     reasoning |-> <<"No trading rules triggered - defaulting to HOLD">>,
     branch |-> "none"]

\* The result returned when triggeredRules is empty.
defaultHold ==
    [suggestedAction |-> "HOLD", confSum |-> 300, confLen |-> 1,
     confidenceLevel |-> "LOW", triggeredRules |-> <<>>,
     reasoning |-> <<"No trading rules triggered - defaulting to HOLD">>,
     branch |-> "none"]

evaluateRules(ctx) ==
    LET triggeredRules == ALL_RULES(ctx)
    IN  IF Len(triggeredRules) = 0
        THEN defaultHold
        ELSE LET sel == selectRules(ByAction(triggeredRules, "SELL"),
                                    ByAction(triggeredRules, "BUY"),
                                    ByAction(triggeredRules, "HOLD"))
                 confSum == SumSeq([i \in 1..Len(sel.selectedRules) |->
                                        sel.selectedRules[i].confidence])
                 confLen == Len(sel.selectedRules)
             IN  [suggestedAction |-> sel.action, confSum |-> confSum, confLen |-> confLen,
                  confidenceLevel |-> confidenceLevelOf(confSum, confLen),
                  triggeredRules |-> triggeredRules,
                  reasoning |-> [i \in 1..confLen |-> sel.selectedRules[i].ruleName],
                  branch |-> sel.branch]

SentimentValues == {-60, -40, -10, 10, 25, 40, 70}
TrendValues == {"rising", "falling", "flat"}
MentionValues == {0, 2, 5}
PriceChangeValues == {-25, -12, 0, 8, 12, 60}
VolumeChangeValues == {0, 60, 250}
HolderChangeValues == {-15, 0, 8}
LiquidityChangeValues == {-40, 0, 5}
TradeCounts == {<<10, 10>>, <<20, 10>>, <<10, 30>>}   \* <<buyCount24h, sellCount24h>>
HeldTokens == {<<>>, <<"T1">>, <<"T2">>}

RuleContexts ==
    {[socialSignal |-> [sentimentScore |-> s, trendDirection |-> t, influencerMentions |-> m],
      onChainData |-> [tokenAddress |-> "T1", priceChange24h |-> p, volumeChange24h |-> v,
                       holderChange24h |-> h, liquidityChange24h |-> l,
                       buyCount24h |-> bs[1], sellCount24h |-> bs[2]],
      portfolio |-> [positions |-> [i \in 1..Len(held) |-> [tokenAddress |-> held[i]]]]] :
        s \in SentimentValues, t \in TrendValues, m \in MentionValues,
        p \in PriceChangeValues, v \in VolumeChangeValues, h \in HolderChangeValues,
        l \in LiquidityChangeValues, bs \in TradeCounts, held \in HeldTokens}

\* Snapshots in which at least one field the rules read is NaN or missing.
NaNContexts ==
    {c \in
        {[socialSignal |-> [sentimentScore |-> s, trendDirection |-> t, influencerMentions |-> m],
          onChainData |-> [tokenAddress |-> "T1", priceChange24h |-> p, volumeChange24h |-> v,
                           holderChange24h |-> h, liquidityChange24h |-> l,
                           buyCount24h |-> bs[1], sellCount24h |-> bs[2]],
          portfolio |-> [positions |-> [i \in 1..Len(held) |-> [tokenAddress |-> held[i]]]]] :
            s \in {-60, 10, 70, NaN}, t \in {"rising", "falling", "undefined"},
            m \in {5, NaN}, p \in {-25, 0, NaN}, v \in {0, 250, NaN}, h \in {-15, 8, NaN},
            l \in {-40, 5, NaN},
            bs \in {<<20, 10>>, <<10, 30>>, <<NaN, 10>>, <<10, NaN>>},
            held \in {<<>>, <<"T1">>}} :
        HasNaN(c)}

RulesIdle == ruleCtx = <<>> /\ ruleResult = <<>>

\* evaluateRules(context) is called and returns.
EvaluateRules ==
    /\ ruleResult = <<>>
    /\ ruleResult' = <<evaluateRules(ruleCtx)>>
    /\ UNCHANGED <<ruleCtx, riskVars, swapVars, compVars>>

(***************************************************************************)
(* Risk manager: exit conditions                                           *)
(***************************************************************************)

MaxPositions == 2

StopLossValues == {0, 10, 15}
TakeProfitValues == {20, 30}
PnLValues == {-20, -15, -10, -5, 0, 20, 30}

MaxPositionSizeValues == {5, 40}

\* RiskConfigSchema.parse(config) returns the config when it is valid and
\* throws otherwise.  The schema is declared in types.ts; the documented
\* rule is that a stop loss at or above the take profit is a configuration
\* error.
RiskConfigSchema(c) == c.stopLossPercent < c.takeProfitPercent

RiskConfigs ==
    {c \in [stopLossPercent : StopLossValues, takeProfitPercent : TakeProfitValues,
            maxPositionSizePercent : MaxPositionSizeValues, maxTotalExposurePercent : {50},
            minLiquidityUSD : {10000}, dailyLossLimitPercent : {10}] :
        RiskConfigSchema(c)}

Positions == [tokenAddress : Tokens, unrealizedPnLPercent : PnLValues]

Portfolios ==
    {[positions |-> ps] : ps \in UNION {[1..n -> Positions] : n \in 0..MaxPositions}}

\* A variant with a strict comparison against the stop-loss threshold.
shouldExitStrict(position, cfg) ==
    \/ position.unrealizedPnLPercent < -cfg.stopLossPercent
    \/ position.unrealizedPnLPercent >= cfg.takeProfitPercent

shouldExit(position, cfg) ==
    \/ position.unrealizedPnLPercent <= -cfg.stopLossPercent
    \/ position.unrealizedPnLPercent >= cfg.takeProfitPercent

\* The Decision pushed for one exiting position; reasoning keeps the template
\* and the P&L it formats.
exitDecision(position) ==
    LET isStopLoss == position.unrealizedPnLPercent < 0
    IN  [tokenAddress |-> position.tokenAddress,
         action |-> "SELL",
         confidence |-> "VERY_HIGH",
         confidenceScore |-> 1000,
         suggestedPositionPercent |-> 100,
         reasoning |-> <<IF isStopLoss THEN "Stop loss triggered at"
                                       ELSE "Take profit triggered at",
                         position.unrealizedPnLPercent>>,
         rulesTriggers |-> <<IF isStopLoss THEN "STOP_LOSS" ELSE "TAKE_PROFIT">>,
         priority |-> "URGENT"]

checkExitConditions(pf, cfg) ==
    LET exiting == SelectSeq(pf.positions, LAMBDA p : shouldExit(p, cfg))
    IN  [i \in 1..Len(exiting) |-> exitDecision(exiting[i])]

AssessIdle ==
    /\ assessArgs = <<>>
    /\ assessments = <<>>
    /\ configEpoch = 0
    /\ sizeArgs = <<>>
    /\ positionSize = <<>>

RiskIdle ==
    /\ riskConfig = [stopLossPercent |-> 10, takeProfitPercent |-> 20,
                     maxPositionSizePercent |-> 5, maxTotalExposurePercent |-> 50,
                     minLiquidityUSD |-> 10000, dailyLossLimitPercent |-> 10]
    /\ portfolio = [positions |-> <<>>]
    /\ exitDecisions = <<>>
    /\ AssessIdle

\* checkExitConditions(portfolio) is called and returns.
CheckExitConditions ==
    /\ exitDecisions = <<>>
    /\ exitDecisions' = <<checkExitConditions(portfolio, riskConfig)>>
    /\ UNCHANGED <<riskConfig, portfolio, assessVars, ruleVars, swapVars, compVars>>

\* updateConfig(newConfig): the earlier return value no longer describes the manager.
UpdateConfig ==
    /\ \E c \in RiskConfigs :
        /\ c # riskConfig
        /\ riskConfig' = c
    /\ exitDecisions' = <<>>
    /\ UNCHANGED <<portfolio, assessVars, ruleVars, swapVars, compVars>>

(***************************************************************************)
(* Risk manager: assessRisk and calculatePositionSize                      *)
(*                                                                         *)
(* USD amounts and percentages are exact fractions [n, d] (d > 0, lowest   *)
(* terms).  riskScore is compared with 0.3 after sums of 0.3, 0.15, 0.1    *)
(* and 0.2, where the rounding of the additions decides the comparison, so *)
(* it is an IEEE-754 double: [hi, lo] stands for (hi * 2^28 + lo) * 2^-56, *)
(* which is exact for every double in [2^-4, 2), and fadd rounds the exact *)
(* sum to 53 significant bits, ties to even.                               *)
(***************************************************************************)

RECURSIVE GCD(_, _)
GCD(a, b) == IF b = 0 THEN a ELSE GCD(b, a % b)

Rat(n, d) ==
    LET g == GCD(Abs(n), Abs(d))
        sgn == IF d < 0 THEN -1 ELSE 1
    IN  [n |-> (sgn * n) \div g, d |-> (sgn * d) \div g]

RInt(k) == [n |-> k, d |-> 1]
RAdd(a, b) == Rat(a.n * b.d + b.n * a.d, a.d * b.d)
RSub(a, b) == Rat(a.n * b.d - b.n * a.d, a.d * b.d)
RMul(a, b) == Rat(a.n * b.n, a.d * b.d)
RDiv(a, b) == Rat(a.n * b.d, a.d * b.n)
RLt(a, b) == a.n * b.d < b.n * a.d
RLe(a, b) == a.n * b.d <= b.n * a.d
RMin(a, b) == IF RLe(a, b) THEN a ELSE b
RMax(a, b) == IF RLe(a, b) THEN b ELSE a

Limb == 2^28

BitLen(n) == CHOOSE k \in 0..30 : n < 2^k /\ (k = 0 \/ n >= 2^(k - 1))

\* The element of a singleton set.  An operand bound as {F(v) : v \in {x}}
\* is evaluated once however often F uses it.
The(S) == CHOOSE r \in S : TRUE

\* The double nearest to the exact sum of the doubles a and b.
fadd(a, b) ==
    The({The({The({The({[hi |-> hi0 + lo1 \div Limb, lo |-> lo1 % Limb] :
                        lo1 \in {LET r == (sLo % Limb) % q
                                     base == (sLo % Limb) - r
                                 IN  IF 2 * r > q \/ (2 * r = q /\ (base \div q) % 2 = 1)
                                     THEN base + q ELSE base}}) :
                   q \in {IF 28 + BitLen(hi0) > 53 THEN 2^(28 + BitLen(hi0) - 53) ELSE 1}}) :
              sLo \in {x.lo + y.lo}, hi0 \in {x.hi + y.hi + (x.lo + y.lo) \div Limb}}) :
         x \in {a}, y \in {b}})

DGt(a, b) == a.hi > b.hi \/ (a.hi = b.hi /\ a.lo > b.lo)
DMin(a, b) == IF DGt(a, b) THEN b ELSE a

\* The doubles the literals 0, 0.3, 0.15, 0.1, 0.2 and 1 denote:
\* 0x1.3333333333333p-2, 0x1.3333333333333p-3, 0x1.999999999999ap-4,
\* 0x1.999999999999ap-3.
D0 == [hi |-> 0, lo |-> 0]
D03 == [hi |-> 80530636, lo |-> 214748364]
D015 == [hi |-> 40265318, lo |-> 107374182]
D01 == [hi |-> 26843545, lo |-> 161061274]
D02 == [hi |-> 53687091, lo |-> 53687092]
D1 == [hi |-> Limb, lo |-> 0]

When(cond, x) == IF cond THEN <<x>> ELSE <<>>

existingPosition(data, pf) ==
    \E i \in 1..Len(pf.positions) : pf.positions[i].tokenAddress = data.tokenAddress

\* A variant that checks the daily loss limit for BUY only.
dailyLossReachedBuyOnly(action, pf, cfg) ==
    action = "BUY" /\ pf.dailyPnLPercent <= -cfg.dailyLossLimitPercent

dailyLossReached(action, pf, cfg) == pf.dailyPnLPercent <= -cfg.dailyLossLimitPercent

\* A variant that adds the liquidity blocker without the risk score.
liquidityScoreNone(data, cfg) == D0

\* riskScore after the liquidity check.
liquidityScore(data, cfg) ==
    IF data.liquidityUSD < cfg.minLiquidityUSD THEN fadd(D0, D03) ELSE D0

\* A variant that runs the BUY checks for every action but HOLD.
isBuyNotHold(action) == action # "HOLD"

\* if (action === 'BUY')
isBuy(action) == action = "BUY"

\* A variant with a strict comparison against maxPositions.
maxPositionsReachedStrict(data, pf) ==
    Len(pf.positions) > pf.maxPositions /\ ~existingPosition(data, pf)

maxPositionsReached(data, pf) ==
    Len(pf.positions) >= pf.maxPositions /\ ~existingPosition(data, pf)

currentExposure(pf) ==
    RMul(RDiv(RInt(pf.totalValueUSD - pf.availableCashUSD), RInt(pf.totalValueUSD)),
         RInt(100))

buySellRatio(data) ==
    IF data.sellCount24h > 0 THEN Rat(data.buyCount24h, data.sellCount24h)
    ELSE RInt(data.buyCount24h)

assessRisk(action, data, pf, cfg) ==
    LET lowLiquidity == data.liquidityUSD < cfg.minLiquidityUSD
        extreme == data.top10HoldersPercent > 80
        high == ~extreme /\ data.top10HoldersPercent > 60
        buy == isBuy(action)
        exposure == buy /\ RLe(RInt(cfg.maxTotalExposurePercent), currentExposure(pf))
        ratio == buy /\ RLt(buySellRatio(data), Rat(1, 2))
        pump == buy /\ data.priceChange24h > 100
        spike == buy /\ data.volumeChange24h > 500
        s1 == liquidityScore(data, cfg)
        s2 == IF extreme THEN fadd(s1, D03) ELSE IF high THEN fadd(s1, D015) ELSE s1
        s3 == IF ratio THEN fadd(s2, D01) ELSE s2
        s4 == IF pump THEN fadd(s3, D02) ELSE s3
        riskScore == IF spike THEN fadd(s4, D01) ELSE s4
        reduced == DGt(riskScore, D03)
        blockers ==
            When(dailyLossReached(action, pf, cfg), "Daily loss limit reached")
                \o When(lowLiquidity, "Insufficient liquidity")
                \o When(extreme, "Extreme holder concentration")
                \o When(buy /\ maxPositionsReached(data, pf), "Max positions reached")
                \o When(exposure, "Max exposure reached")
                \o When(action = "SELL" /\ ~existingPosition(data, pf), "No position to sell")
        warnings ==
            When(high, "High holder concentration")
                \o When(ratio, "Unfavorable buy/sell ratio")
                \o When(pump, "Significant price increase")
                \o When(spike, "Abnormal volume spike")
                \o When(reduced, "Position size reduced due to elevated risk")
        maxByPortfolioPercent == Rat(pf.totalValueUSD * cfg.maxPositionSizePercent, 100)
        maxByCash == RInt(pf.availableCashUSD)
        maxByLiquidity == Rat(data.liquidityUSD * 2, 100)
        maxUSD == RMin(RMin(maxByPortfolioPercent, maxByCash), maxByLiquidity)
        maxPositionSizeUSD == IF reduced THEN RMul(maxUSD, Rat(1, 2)) ELSE maxUSD
        volatilityMultiplier == RMin(RInt(2), RAdd(RInt(1), Rat(Abs(data.priceChange24h), 100)))
    IN  [canTrade |-> Len(blockers) = 0,
         maxPositionSizeUSD |-> maxPositionSizeUSD,
         maxPositionSizePercent |->
             RMul(RDiv(maxPositionSizeUSD, RInt(pf.totalValueUSD)), RInt(100)),
         suggestedStopLoss |-> RMul(RInt(cfg.stopLossPercent), volatilityMultiplier),
         suggestedTakeProfit |-> RInt(cfg.takeProfitPercent),
         riskScore |-> DMin(D1, riskScore),
         warnings |-> warnings,
         blockers |-> blockers]

\* A variant that uses the full Kelly fraction.
halfKellyFull(kellyFraction) == kellyFraction

\* const halfKelly = kellyFraction / 2
halfKelly(kellyFraction) == RDiv(kellyFraction, RInt(2))

\* confidence is in hundredths.
calculatePositionSize(confidence, pf, riskAssessment, cfg) ==
    LET winProbability == RAdd(Rat(1, 2), RMul(Rat(confidence, 100), Rat(3, 10)))
        avgWin == Rat(cfg.takeProfitPercent, 100)
        avgLoss == Rat(cfg.stopLossPercent, 100)
        b == RDiv(avgWin, avgLoss)
        kelly == RDiv(RSub(RMul(b, winProbability), RSub(RInt(1), winProbability)), b)
        kellyFraction == RMax(RInt(0), kelly)
        maxPercent == RMin(RMin(RMul(halfKelly(kellyFraction), RInt(100)),
                                riskAssessment.maxPositionSizePercent),
                           RInt(cfg.maxPositionSizePercent))
        percent == RMax(RInt(0), maxPercent)
    IN  [percent |-> percent,
         amountUSD |-> RDiv(RMul(RInt(pf.totalValueUSD), percent), RInt(100))]

MaxAssessCalls == 2
MaxConfigUpdates == 1

ActionValues == {"BUY", "SELL", "HOLD"}
LiquidityValues == {5000, 20000}
HolderPercentValues == {50, 70, 85}
RunUpValues == {0, 150}
VolumeSpikeValues == {0, 600}
RatioCounts == {<<10, 10>>, <<10, 30>>}   \* <<buyCount24h, sellCount24h>>
DailyPnLValues == {-12, -10, -5}
CashValues == {100, 1000}
TotalValues == {1000}
HeldSets == {<<>>, <<"T1">>, <<"T2">>, <<"T2", "T3">>}
MaxPositionsValues == {1, 2}

AssessArgsSet ==
    {[action |-> a,
      onChainData |-> [tokenAddress |-> "T1", liquidityUSD |-> l, top10HoldersPercent |-> h,
                       buyCount24h |-> bs[1], sellCount24h |-> bs[2],
                       priceChange24h |-> p, volumeChange24h |-> v],
      portfolio |-> [totalValueUSD |-> t, availableCashUSD |-> c, dailyPnLPercent |-> d,
                     maxPositions |-> m,
                     positions |-> [i \in 1..Len(held) |->
                                       [tokenAddress |-> held[i], unrealizedPnLPercent |-> 0]]]] :
        a \in ActionValues, l \in LiquidityValues, h \in HolderPercentValues,
        bs \in RatioCounts, p \in RunUpValues, v \in VolumeSpikeValues,
        t \in TotalValues, c \in CashValues, d \in DailyPnLValues,
        m \in MaxPositionsValues, held \in HeldSets}

\* The configurations of the assessRisk and sizing runs: a positive stop loss.
AssessConfigs == {c \in RiskConfigs : c.stopLossPercent = 10 /\ c.takeProfitPercent = 20}

\* A variant that writes the volatility-adjusted stop loss back to the config.
AssessRiskAdjustsConfig ==
    /\ assessArgs # <<>>
    /\ Len(assessments) < MaxAssessCalls
    /\ LET a == assessArgs[1]
           r == assessRisk(a.action, a.onChainData, a.portfolio, riskConfig)
       IN  /\ assessments' = Append(assessments, [epoch |-> configEpoch,
                                                   config |-> riskConfig, result |-> r])
           /\ riskConfig' = [riskConfig EXCEPT !.stopLossPercent = r.suggestedStopLoss.n]
    /\ UNCHANGED <<assessArgs, configEpoch, sizeArgs, positionSize, portfolio, exitDecisions,
                   ruleVars, swapVars, compVars>>

\* assessRisk(action, onChainData, portfolio) is called and returns.
AssessRisk ==
    /\ assessArgs # <<>>
    /\ Len(assessments) < MaxAssessCalls
    /\ LET a == assessArgs[1]
       IN  assessments' =
               Append(assessments,
                      [epoch |-> configEpoch,
                       config |-> riskConfig,
                       result |-> assessRisk(a.action, a.onChainData, a.portfolio, riskConfig)])
    /\ UNCHANGED <<riskConfig, assessArgs, configEpoch, sizeArgs, positionSize, portfolio,
                   exitDecisions, ruleVars, swapVars, compVars>>

\* updateConfig({ maxPositionSizePercent }) between two assessments.
UpdateSizeCap ==
    /\ configEpoch < MaxConfigUpdates
    /\ \E x \in MaxPositionSizeValues :
        /\ x # riskConfig.maxPositionSizePercent
        /\ riskConfig' = [riskConfig EXCEPT !.maxPositionSizePercent = x]
    /\ configEpoch' = configEpoch + 1
    /\ UNCHANGED <<assessArgs, assessments, sizeArgs, positionSize, portfolio, exitDecisions,
                   ruleVars, swapVars, compVars>>

ConfidenceValues == {0, 50, 80, 100}
AssessmentCaps == {Rat(-1, 1), Rat(5, 2), Rat(10, 1), Rat(40, 1)}

SizeArgsSet ==
    [confidence : ConfidenceValues,
     portfolio : [totalValueUSD : {1000, 2000}],
     riskAssessment : [maxPositionSizePercent : AssessmentCaps]]

\* calculatePositionSize(confidence, portfolio, riskAssessment) is called and returns.
CalculatePositionSize ==
    /\ sizeArgs # <<>>
    /\ positionSize = <<>>
    /\ positionSize' = <<calculatePositionSize(sizeArgs[1].confidence, sizeArgs[1].portfolio,
                                               sizeArgs[1].riskAssessment, riskConfig)>>
    /\ UNCHANGED <<riskConfig, assessArgs, assessments, configEpoch, sizeArgs, portfolio,
                   exitDecisions, ruleVars, swapVars, compVars>>

(***************************************************************************)
(* IEEE-754 double arithmetic                                              *)
(*                                                                         *)
(* The amounts and percentages between maxPositionSizeUSD and amountUSD    *)
(* pass through divisions and multiplications whose rounding decides       *)
(* whether the size stays under its cap.  A non-negative double is         *)
(* [m, e]: the value m * 2^e with m = 0 or 2^52 <= m < 2^53, m a natural   *)
(* number in LimbCount limbs of 14 bits, least significant first.  Each    *)
(* operation rounds the exact result to nearest, ties to even.             *)
(*                                                                         *)
(* Operands are bound as elements of singleton sets, {F(v) : v \in {x}},   *)
(* so that each is evaluated once however often the body uses it.          *)
(***************************************************************************)

LimbBase == 2^14
LimbCount == 4 + 4

\* Carries (or borrows) are propagated from the least significant limb.
RECURSIVE NormFrom(_, _, _)
NormFrom(s, i, c) ==
    IF i > LimbCount THEN <<>>
    ELSE The({<<t % LimbBase>> \o NormFrom(s, i + 1, t \div LimbBase) : t \in {s[i] + c}})

Norm(s) == The({NormFrom(v, 1, 0) : v \in {s}})

L(n) == Norm([i \in 1..LimbCount |-> IF i = 1 THEN n ELSE 0])
LAdd(a, b) == The({Norm([i \in 1..LimbCount |-> u[i] + v[i]]) : u \in {a}, v \in {b}})
LSub(a, b) == The({Norm([i \in 1..LimbCount |-> u[i] - v[i]]) : u \in {a}, v \in {b}})
LMul(a, b) ==
    The({Norm([k \in 1..LimbCount |->
                  SumSeq([i \in 1..Min(k, 4) |-> u[i] * v[k + 1 - i]])]) :
         u \in {a}, v \in {b}})
LLe(a, b) ==
    \E u \in {a}, v \in {b} :
        u = v \/ \E i \in 1..LimbCount : u[i] < v[i] /\ \A j \in (i + 1)..LimbCount : u[j] = v[j]
LBitLen(a) ==
    The({IF \A i \in 1..LimbCount : u[i] = 0 THEN 0
         ELSE The({14 * (top - 1) + BitLen(u[top]) :
                   top \in {i \in 1..LimbCount :
                               u[i] > 0 /\ \A j \in (i + 1)..LimbCount : u[j] = 0}}) :
         u \in {a}})
LShr(a, k) ==
    The({[i \in 1..LimbCount |->
             (IF i + w <= LimbCount THEN u[i + w] ELSE 0) \div 2^r
                 + ((IF i + w + 1 <= LimbCount THEN u[i + w + 1] ELSE 0) % 2^r) * 2^(14 - r)] :
         u \in {a}, w \in {k \div 14}, r \in {k % 14}})
LShl(a, k) ==
    The({[i \in 1..LimbCount |->
             ((IF i - w >= 1 THEN u[i - w] ELSE 0) % 2^(14 - r)) * 2^r
                 + (IF i - w - 1 >= 1 THEN u[i - w - 1] ELSE 0) \div 2^(14 - r)] :
         u \in {a}, w \in {k \div 14}, r \in {k % 14}})

\* The double nearest to n * 2^e, or to a value strictly between n * 2^e
\* and (n + 1) * 2^e when sticky is set (n then has more than 54 bits).
Round(n, sticky, e) ==
    The({IF len = 0 THEN [m |-> v, e |-> 0]
         ELSE IF len <= 53 THEN [m |-> LShl(v, 53 - len), e |-> e - (53 - len)]
         ELSE The({The({IF LBitLen(top1) = 54
                        THEN [m |-> LShr(top1, 1), e |-> e + len - 52]
                        ELSE [m |-> top1, e |-> e + len - 53] :
                        top1 \in {IF \/ ~LLe(rem, LShl(L(1), len - 54))
                                     \/ /\ rem = LShl(L(1), len - 54)
                                        /\ (sticky \/ top[1] % 2 = 1)
                                  THEN LAdd(top, L(1)) ELSE top}}) :
                   top \in {LShr(v, len - 53)},
                   rem \in {LSub(v, LShl(LShr(v, len - 53), len - 53))}}) :
         v \in {n}, len \in {LBitLen(n)}})

\* n steps of the restoring division by d, from the remainder s.r: each
\* step yields the next bit of the quotient, most significant first.  The
\* steps are split in halves to keep the evaluation shallow.
RECURSIVE DivSteps(_, _, _)
DivSteps(s, d, n) ==
    The({IF k = 1
         THEN IF LLe(d, sv.r)
              THEN [r |-> LAdd(LSub(sv.r, d), LSub(sv.r, d)), bits |-> Append(sv.bits, 1)]
              ELSE [r |-> LAdd(sv.r, sv.r), bits |-> Append(sv.bits, 0)]
         ELSE DivSteps(DivSteps(sv, d, k \div 2), d, k - k \div 2) :
         sv \in {s}, k \in {n}})

\* The natural number whose binary digits are bits, most significant first.
FromBits(bits) ==
    The({[k \in 1..LimbCount |->
             SumSeq([t \in 1..14 |->
                        IF Len(bs) - (14 * (k - 1) + t - 1) >= 1
                        THEN bs[Len(bs) - (14 * (k - 1) + t - 1)] * 2^(t - 1) ELSE 0])] :
         bs \in {bits}})

FromInt(n) == Round(L(n), FALSE, 0)
FLe(x, y) ==
    \E u \in {x}, v \in {y} :
        \/ LBitLen(u.m) = 0
        \/ LBitLen(v.m) > 0 /\ (u.e < v.e \/ (u.e = v.e /\ LLe(u.m, v.m)))
FMul(x, y) ==
    The({IF LBitLen(u.m) = 0 \/ LBitLen(v.m) = 0 THEN FromInt(0)
         ELSE Round(LMul(u.m, v.m), FALSE, u.e + v.e) :
         u \in {x}, v \in {y}})
\* The 57 leading bits of the quotient of the mantissas decide the rounding,
\* together with whether a remainder is left.
FDiv(x, y) ==
    The({IF LBitLen(u.m) = 0 THEN FromInt(0)
         ELSE The({Round(FromBits(q.bits), \E i \in 1..LimbCount : q.r[i] # 0,
                         u.e - v.e - 56) :
                   q \in {DivSteps([r |-> u.m, bits |-> <<>>], v.m, 57)}}) :
         u \in {x}, v \in {y}})
\* x + y, and x - y for x >= y; the exponents are at most 58 apart.
FAdd(x, y) ==
    The({IF LBitLen(u.m) = 0 THEN v
         ELSE IF LBitLen(v.m) = 0 THEN u
         ELSE IF u.e >= v.e THEN Round(LAdd(LShl(u.m, u.e - v.e), v.m), FALSE, v.e)
         ELSE Round(LAdd(LShl(v.m, v.e - u.e), u.m), FALSE, u.e) :
         u \in {x}, v \in {y}})
FSub(x, y) ==
    The({IF LBitLen(v.m) = 0 THEN u
         ELSE Round(LSub(LShl(u.m, u.e - v.e), v.m), FALSE, v.e) :
         u \in {x}, v \in {y}})
FMin(x, y) == The({IF FLe(u, v) THEN u ELSE v : u \in {x}, v \in {y}})
FMax(x, y) == The({IF FLe(u, v) THEN v ELSE u : u \in {x}, v \in {y}})

\* The doubles of the literals and of the whole-number inputs.
Dbl(n, d) == FDiv(FromInt(n), FromInt(d))

\* maxPositionSizeUSD and maxPositionSizePercent as the doubles that
\* assessRisk computes; the other fields of the RiskAssessment are those of
\* assessRisk above.
assessRiskSizes(action, data, pf, cfg) ==
    LET maxByPortfolioPercent ==
            FDiv(FMul(FromInt(pf.totalValueUSD), FromInt(cfg.maxPositionSizePercent)),
                 FromInt(100))
        maxByCash == FromInt(pf.availableCashUSD)
        maxByLiquidity == FMul(FromInt(data.liquidityUSD), Dbl(2, 100))
        maxUSD == FMin(FMin(maxByPortfolioPercent, maxByCash), maxByLiquidity)
    IN  The({The({[ra EXCEPT !.maxPositionSizeUSD = maxPositionSizeUSD,
                             !.maxPositionSizePercent =
                                 FMul(FDiv(maxPositionSizeUSD, FromInt(pf.totalValueUSD)),
                                      FromInt(100))] :
                  maxPositionSizeUSD \in
                      {IF \E i \in 1..Len(ra.warnings) :
                              ra.warnings[i] = "Position size reduced due to elevated risk"
                       THEN FMul(maxUSD, Dbl(1, 2)) ELSE maxUSD}}) :
             ra \in {assessRisk(action, data, pf, cfg)}})

\* calculatePositionSize on doubles; confidence is in hundredths, and the
\* configuration has 0 < stopLossPercent < takeProfitPercent.
calculatePositionSizeDouble(confidence, pf, riskAssessment, cfg) ==
    LET winProbability == FAdd(Dbl(1, 2), FMul(Dbl(confidence, 100), Dbl(3, 10)))
        avgWin == Dbl(cfg.takeProfitPercent, 100)
        avgLoss == Dbl(cfg.stopLossPercent, 100)
        b == FDiv(avgWin, avgLoss)
        kelly == FDiv(FSub(FMul(b, winProbability), FSub(FromInt(1), winProbability)), b)
        kellyFraction == FMax(FromInt(0), kelly)
        halfKellyD == FDiv(kellyFraction, FromInt(2))
        maxPercent == FMin(FMin(FMul(halfKellyD, FromInt(100)),
                                riskAssessment.maxPositionSizePercent),
                           FromInt(cfg.maxPositionSizePercent))
        percent == FMax(FromInt(0), maxPercent)
    IN  [percent |-> percent,
         amountUSD |-> FDiv(FMul(FromInt(pf.totalValueUSD), percent), FromInt(100))]

\* The portfolios and tokens of the sizing pipeline: cash that is a small or
\* a large part of the portfolio, a thin and a deep pool.
CapArgsSet ==
    {[action |-> a,
      onChainData |-> [tokenAddress |-> "T1", liquidityUSD |-> l, top10HoldersPercent |-> h,
                       buyCount24h |-> 10, sellCount24h |-> 10,
                       priceChange24h |-> p, volumeChange24h |-> 0],
      portfolio |-> [totalValueUSD |-> t, availableCashUSD |-> c, dailyPnLPercent |-> 0,
                     maxPositions |-> 2, positions |-> <<>>]] :
        a \in {"BUY"}, l \in {350, 20000}, h \in {50, 85}, p \in {0, 150},
        t \in {1000}, c \in {0, 7, 100, 1000}}

\* assessRisk is called and its RiskAssessment kept for the sizing.
AssessForSizing ==
    /\ assessArgs # <<>>
    /\ sizeArgs # <<>>
    /\ assessments = <<>>
    /\ LET a == assessArgs[1]
       IN  assessments' =
               <<[epoch |-> configEpoch, config |-> riskConfig,
                  result |-> assessRiskSizes(a.action, a.onChainData, a.portfolio, riskConfig)]>>
    /\ UNCHANGED <<riskConfig, assessArgs, configEpoch, sizeArgs, positionSize, portfolio,
                   exitDecisions, ruleVars, swapVars, compVars>>

\* calculatePositionSize is called with the assessment of the same portfolio.
SizeFromAssessment ==
    /\ assessments # <<>>
    /\ sizeArgs # <<>>
    /\ positionSize = <<>>
    /\ positionSize' =
           <<calculatePositionSizeDouble(sizeArgs[1].confidence, assessArgs[1].portfolio,
                                         assessments[1].result, riskConfig)>>
    /\ UNCHANGED <<riskConfig, assessArgs, assessments, configEpoch, sizeArgs, portfolio,
                   exitDecisions, ruleVars, swapVars, compVars>>

(***************************************************************************)
(* Jupiter client: executeSwap and sendAndConfirmTransaction               *)
(*                                                                         *)
(* The call is one sequential process; swapPc is the await it is suspended *)
(* at.  The quote API, the swap API and the RPC node are the environment:  *)
(* each pending request is answered by one of the answers it can give, or  *)
(* not yet.  Everything the libraries throw is an Error, kept as its       *)
(* message.  An optional value is <<>> (absent) or <<v>>.                  *)
(***************************************************************************)

MaxRetriesBound == 3
MaxWaitTicks == 3
TickMs == 30000

defaultSlippageBps == 50
maxSlippageBps == 500
retryDelayMs == 1000
confirmationTimeout == 60000

SlippageValues == {0, 100, 800}
AmountValues == {1000}
QuoteIds == {1, 2}

SwapConfigs ==
    [defaultSlippageBps : {defaultSlippageBps}, maxSlippageBps : {maxSlippageBps},
     maxRetries : 0..MaxRetriesBound, retryDelayMs : {retryDelayMs},
     confirmationTimeout : {confirmationTimeout}]

SwapParamsSet ==
    [inputMint : {"SOL"}, outputMint : {"T1"}, amount : AmountValues,
     slippageBps : SlippageValues]

\* slippageBps || defaultSlippageBps
orDefault(slippageBps, cfg) ==
    IF slippageBps = 0 THEN cfg.defaultSlippageBps ELSE slippageBps

effectiveSlippage(params, cfg) ==
    Min(orDefault(params.slippageBps, cfg), cfg.maxSlippageBps)

\* The QuoteResponse the quote API gives to a request when the market is in
\* condition id.  In condition 1 the response carries no priceImpactPct; in
\* condition 2 the price has moved and the impact is 7%.
quoteResponse(id, amount, slippageBps) ==
    [id |-> id, inAmount |-> amount,
     outAmount |-> IF id = 1 THEN amount - 10 ELSE amount - 100,
     priceImpactPct |-> IF id = 1 THEN <<>> ELSE <<7>>,
     slippageBps |-> slippageBps]

\* parseFloat(response.priceImpactPct || '0')
parseQuoteResponse(response) ==
    [id |-> response.id, inAmount |-> response.inAmount, outAmount |-> response.outAmount,
     priceImpactPct |-> IF response.priceImpactPct = <<>> THEN 0
                        ELSE response.priceImpactPct[1],
     slippageBps |-> response.slippageBps]

\* A variant that reports success without the signature.
successResultNoSignature(params, q, sig) ==
    [success |-> TRUE, inputAmount |-> q.inAmount, outputAmount |-> q.outAmount,
     inputMint |-> params.inputMint, outputMint |-> params.outputMint,
     priceImpactPct |-> q.priceImpactPct]

successResult(params, q, sig) ==
    [success |-> TRUE, signature |-> sig,
     inputAmount |-> q.inAmount, outputAmount |-> q.outAmount,
     inputMint |-> params.inputMint, outputMint |-> params.outputMint,
     priceImpactPct |-> q.priceImpactPct]

failureResult(params, errorMessage) ==
    [success |-> FALSE, inputAmount |-> params.amount, outputAmount |-> 0,
     inputMint |-> params.inputMint, outputMint |-> params.outputMint,
     priceImpactPct |-> 0, error |-> errorMessage]

\* A variant of the loop condition that is off by one.
loopContinuesOffByOne(a, cfg) == a <= cfg.maxRetries + 1

\* for (...; attempt <= this.config.maxRetries; ...)
loopContinues(a, cfg) == a <= cfg.maxRetries

\* if (attempt < this.config.maxRetries) await this.delay(...)
delayBeforeRetry(a, cfg) == a < cfg.maxRetries

SwapIdle ==
    /\ swapPc = "idle"
    /\ swapCfg = <<>>
    /\ swapParams = <<>>
    /\ quote = <<>>
    /\ buildQuote = <<>>
    /\ transaction = <<>>
    /\ attempt = 0
    /\ signature = <<>>
    /\ lastError = <<>>
    /\ swapResults = <<>>
    /\ swapLog = <<>>
    /\ attemptErrors = <<>>
    /\ waitedMs = 0

Logged(op) == SelectSeq(swapLog, LAMBDA e : e.op = op)

\* A variant of the catch block of executeSwap that lets the error escape.
FailRethrows(errorMessage) ==
    /\ swapPc' = "threw"
    /\ swapResults' = swapResults

\* The catch block of executeSwap: the call returns a failed SwapResult.
Fail(errorMessage) ==
    /\ swapPc' = "done"
    /\ swapResults' = Append(swapResults, failureResult(swapParams, errorMessage))

\* The head of the retry loop with attempt = a, lastError = err (optional):
\* either the body starts and the serialized transaction tx is broadcast, or
\* the loop is left and lastError (or the fallback Error) is thrown to
\* executeSwap.
LoopStep(a, err, log, tx) ==
    /\ attempt' = a
    /\ IF loopContinues(a, swapCfg)
       THEN /\ swapPc' = "awaitSend"
            /\ swapLog' = Append(log, [op |-> "sendRawTransaction", payload |-> tx,
                                       attempt |-> a])
            /\ swapResults' = swapResults
       ELSE /\ swapLog' = log
            /\ Fail(IF err = <<>> THEN "Transaction failed after all retries" ELSE err[1])

\* The catch block of the retry loop, entered with the Error e.
CatchAttempt(e, log) ==
    /\ lastError' = <<e>>
    /\ attemptErrors' = Append(attemptErrors, e)
    /\ IF delayBeforeRetry(attempt, swapCfg)
       THEN /\ swapPc' = "delay"
            /\ swapLog' = log
            /\ UNCHANGED <<attempt, swapResults, compVars>>
       ELSE LoopStep(attempt + 1, <<e>>, log, transaction[1])

\* executeSwap(params, wallet) is called: getQuote sends the quote request.
ExecuteSwap ==
    /\ swapPc = "idle"
    /\ \E p \in SwapParamsSet :
        /\ swapParams' = p
        /\ swapLog' = Append(swapLog, [op |-> "quoteGet",
                                      slippageBps |-> effectiveSlippage(p, swapCfg)])
    /\ swapPc' = "awaitQuote"
    /\ UNCHANGED <<swapCfg, quote, buildQuote, transaction, attempt, signature, lastError,
                   swapResults, attemptErrors, waitedMs, ruleVars, riskVars, compVars>>

\* getQuote's request is answered with a quote: it is parsed, its price impact
\* is checked (a warning only), and the swapRequest's own quoteGet is sent.
QuoteOk ==
    /\ swapPc = "awaitQuote"
    /\ \E id \in QuoteIds :
        quote' = <<parseQuoteResponse(
                     quoteResponse(id, swapParams.amount, swapLog[Len(swapLog)].slippageBps))>>
    /\ swapLog' = Append(swapLog, [op |-> "quoteGet",
                                  slippageBps |-> orDefault(swapParams.slippageBps, swapCfg)])
    /\ swapPc' = "awaitQuote2"
    /\ UNCHANGED <<swapCfg, swapParams, buildQuote, transaction, attempt, signature,
                   lastError, swapResults, attemptErrors, waitedMs, ruleVars, riskVars, compVars>>

\* getQuote's request is answered with nothing, or fails: getQuote rethrows.
QuoteFails ==
    /\ swapPc = "awaitQuote"
    /\ \E msg \in {"No quote returned from Jupiter", "quote request failed"} : Fail(msg)
    /\ UNCHANGED <<swapCfg, swapParams, quote, buildQuote, transaction, attempt, signature,
                   lastError, swapLog, attemptErrors, waitedMs, ruleVars, riskVars, compVars>>

\* The second quoteGet is answered: its response goes into swapPost as is.
Quote2Ok ==
    /\ swapPc = "awaitQuote2"
    /\ \E id \in QuoteIds :
        buildQuote' = <<quoteResponse(id, swapParams.amount,
                                      swapLog[Len(swapLog)].slippageBps)>>
    /\ swapLog' = Append(swapLog, [op |-> "swapPost"])
    /\ swapPc' = "awaitSwap"
    /\ UNCHANGED <<swapCfg, swapParams, quote, transaction, attempt, signature, lastError,
                   swapResults, attemptErrors, waitedMs, ruleVars, riskVars, compVars>>

Quote2Fails ==
    /\ swapPc = "awaitQuote2"
    /\ Fail("quote request failed")
    /\ UNCHANGED <<swapCfg, swapParams, quote, buildQuote, transaction, attempt, signature,
                   lastError, swapLog, attemptErrors, waitedMs, ruleVars, riskVars, compVars>>

\* swapPost answers with a swapTransaction built from the quote it was given.
SwapPostOk ==
    /\ swapPc = "awaitSwap"
    /\ transaction' = <<[quote |-> buildQuote[1], signed |-> FALSE]>>
    /\ swapPc' = "sign"
    /\ UNCHANGED <<swapCfg, swapParams, quote, buildQuote, attempt, signature, lastError,
                   swapResults, swapLog, attemptErrors, waitedMs, ruleVars, riskVars, compVars>>

\* swapPost answers without a swapTransaction, or fails.
SwapPostFails ==
    /\ swapPc = "awaitSwap"
    /\ \E msg \in {"No swap transaction returned", "swap request failed"} : Fail(msg)
    /\ UNCHANGED <<swapCfg, swapParams, quote, buildQuote, transaction, attempt, signature,
                   lastError, swapLog, attemptErrors, waitedMs, ruleVars, riskVars, compVars>>

\* Step 3 and the entry of sendAndConfirmTransaction: the transaction is
\* deserialized and signed, lastError = null, attempt = 1.
Sign ==
    /\ swapPc = "sign"
    /\ transaction' = <<[transaction[1] EXCEPT !.signed = TRUE]>>
    /\ lastError' = <<>>
    /\ LoopStep(1, <<>>, Append(swapLog, [op |-> "sign"]), transaction'[1])
    /\ UNCHANGED <<swapCfg, swapParams, quote, buildQuote, signature, attemptErrors,
                   waitedMs, ruleVars, riskVars, compVars>>

\* A variant in which a failed signing is treated like a failed attempt of
\* the retry loop.
SignFailsEntersLoop ==
    /\ swapPc = "sign"
    /\ lastError' = <<>>
    /\ \E msg \in {"signer locked", "signer unauthorized"} :
        LoopStep(1, <<>>, Append(swapLog, [op |-> "signThrows", error |-> msg]),
                 transaction[1])
    /\ UNCHANGED <<swapCfg, swapParams, quote, buildQuote, transaction, signature,
                   attemptErrors, waitedMs, ruleVars, riskVars, compVars>>

\* Deserializing or signing throws an Error (the signer is locked or not
\* authorized): the catch block of executeSwap returns its message.
SignFails ==
    /\ swapPc = "sign"
    /\ \E msg \in {"signer locked", "signer unauthorized"} :
        /\ Fail(msg)
        /\ swapLog' = Append(swapLog, [op |-> "signThrows", error |-> msg])
    /\ UNCHANGED <<swapCfg, swapParams, quote, buildQuote, transaction, attempt, signature,
                   lastError, attemptErrors, waitedMs, ruleVars, riskVars, compVars>>

\* sendRawTransaction returns the signature; getLatestBlockhash is requested.
SendOk ==
    /\ swapPc = "awaitSend"
    /\ signature' = <<[of |-> transaction[1]]>>
    /\ swapLog' = Append(swapLog, [op |-> "getLatestBlockhash"])
    /\ swapPc' = "awaitBlockhash"
    /\ UNCHANGED <<swapCfg, swapParams, quote, buildQuote, transaction, attempt, lastError,
                   swapResults, attemptErrors, waitedMs, ruleVars, riskVars, compVars>>

\* sendRawTransaction throws (a SendTransactionError or a network error).
SendFails ==
    /\ swapPc = "awaitSend"
    /\ CatchAttempt("send failed", swapLog)
    /\ UNCHANGED <<swapCfg, swapParams, quote, buildQuote, transaction, signature,
                   waitedMs, ruleVars, riskVars, compVars>>

\* getLatestBlockhash answers; confirmTransaction starts waiting.
BlockhashOk ==
    /\ swapPc = "awaitBlockhash"
    /\ swapLog' = Append(swapLog, [op |-> "confirmTransaction"])
    /\ waitedMs' = 0
    /\ swapPc' = "awaitConfirm"
    /\ UNCHANGED <<swapCfg, swapParams, quote, buildQuote, transaction, attempt, signature,
                   lastError, swapResults, attemptErrors, ruleVars, riskVars, compVars>>

BlockhashFails ==
    /\ swapPc = "awaitBlockhash"
    /\ CatchAttempt("blockhash request failed", swapLog)
    /\ UNCHANGED <<swapCfg, swapParams, quote, buildQuote, transaction, signature,
                   waitedMs, ruleVars, riskVars, compVars>>

\* Time passes while confirmTransaction is pending.
ConfirmWait ==
    /\ swapPc = "awaitConfirm"
    /\ waitedMs < MaxWaitTicks * TickMs
    /\ waitedMs' = waitedMs + TickMs
    /\ UNCHANGED <<swapPc, swapCfg, swapParams, quote, buildQuote, transaction, attempt,
                   signature, lastError, swapResults, swapLog, attemptErrors,
                   ruleVars, riskVars, compVars>>

\* A variant of the confirmed branch that does not return: the loop goes on
\* and the signature is returned when the loop ends.
ConfirmOkKeepsLooping ==
    /\ swapPc = "awaitConfirm"
    /\ IF loopContinues(attempt + 1, swapCfg)
       THEN /\ LoopStep(attempt + 1, lastError,
                        Append(swapLog, [op |-> "confirmed"]), transaction[1])
       ELSE /\ swapPc' = "done"
            /\ attempt' = attempt
            /\ swapLog' = Append(swapLog, [op |-> "confirmed"])
            /\ swapResults' = Append(swapResults,
                                     successResult(swapParams, quote[1], signature[1]))
    /\ UNCHANGED <<swapCfg, swapParams, quote, buildQuote, transaction, signature,
                   lastError, attemptErrors, waitedMs, ruleVars, riskVars, compVars>>

\* confirmTransaction answers with value.err unset: sendAndConfirmTransaction
\* returns the signature and executeSwap returns the successful SwapResult.
ConfirmOk ==
    /\ swapPc = "awaitConfirm"
    /\ swapLog' = Append(swapLog, [op |-> "confirmed"])
    /\ swapResults' = Append(swapResults, successResult(swapParams, quote[1], signature[1]))
    /\ swapPc' = "done"
    /\ UNCHANGED <<swapCfg, swapParams, quote, buildQuote, transaction, attempt, signature,
                   lastError, attemptErrors, waitedMs, ruleVars, riskVars, compVars>>

\* confirmTransaction answers with value.err set: the Error thrown at line 217
\* is caught by the catch block of the loop, like any other.
ConfirmErr ==
    /\ swapPc = "awaitConfirm"
    /\ CatchAttempt("Transaction failed: on-chain error",
                    Append(swapLog, [op |-> "onChainFailure"]))
    /\ UNCHANGED <<swapCfg, swapParams, quote, buildQuote, transaction, signature,
                   waitedMs, ruleVars, riskVars, compVars>>

\* confirmTransaction throws (block height exceeded, network error).
ConfirmThrows ==
    /\ swapPc = "awaitConfirm"
    /\ CatchAttempt("confirmation failed", swapLog)
    /\ UNCHANGED <<swapCfg, swapParams, quote, buildQuote, transaction, signature,
                   waitedMs, ruleVars, riskVars, compVars>>

\* A variant of the retry that signs the transaction again before resending.
DelayDoneResigns ==
    /\ swapPc = "delay"
    /\ LoopStep(attempt + 1, lastError, Append(swapLog, [op |-> "sign"]), transaction[1])
    /\ UNCHANGED <<swapCfg, swapParams, quote, buildQuote, transaction, signature,
                   lastError, attemptErrors, waitedMs, ruleVars, riskVars, compVars>>

\* delay(retryDelayMs * attempt) is over: attempt++ and the loop head.
DelayDone ==
    /\ swapPc = "delay"
    /\ LoopStep(attempt + 1, lastError, swapLog, transaction[1])
    /\ UNCHANGED <<swapCfg, swapParams, quote, buildQuote, transaction, signature,
                   lastError, attemptErrors, waitedMs, ruleVars, riskVars, compVars>>

(***************************************************************************)
(* Stand-alone components                                                  *)
(*                                                                         *)
(* The transaction logger, the trading cycles that share a portfolio, the  *)
(* position manager, the wallet encryption, the scrapers' rate limit and   *)
(* the pool arithmetic.  Each is <<>> while not in use and <<its state>>   *)
(* otherwise.                                                              *)
(***************************************************************************)

\* TransactionLogger ------------------------------------------------------

MaxLogs == 2

TxIds == {"tx1", "tx2"}
LogStatuses == {"pending", "confirmed", "failed"}

\* extra?: Partial<TransactionLog>: any of the fields, status among them.
ExtraValues == {<<>>, <<[error |-> "timeout"]>>} \cup {<<[status |-> s]>> : s \in LogStatuses}

\* logTransaction(log)
LogTransaction ==
    /\ logger # <<>>
    /\ Len(logger[1].logs) < MaxLogs
    /\ \E id \in TxIds, st \in LogStatuses :
        logger' = <<[logs |-> Append(logger[1].logs,
                                     [id |-> id, status |-> st, error |-> <<>>])]>>
    /\ UNCHANGED <<ruleVars, riskVars, swapVars, desk, ledger, vault, limiter, pool>>

\* The logs after updateTransactionStatus(id, status, extra): the first log
\* with the id gets the status, then the fields of extra.
updateTransactionStatus(logs, id, status, extra) ==
    LET found == {i \in 1..Len(logs) : logs[i].id = id}
    IN  IF found = {} THEN logs
        ELSE LET i == CHOOSE j \in found : \A k \in found : j <= k
                 assigned == [logs[i] EXCEPT !.status = status]
             IN  [logs EXCEPT ![i] =
                     IF extra = <<>> THEN assigned
                     ELSE [f \in DOMAIN assigned |->
                              IF f \in DOMAIN extra[1] THEN
                                  IF f = "error" THEN <<extra[1][f]>> ELSE extra[1][f]
                              ELSE assigned[f]]]

UpdateTransactionStatus ==
    /\ logger # <<>>
    /\ \E id \in TxIds, st \in LogStatuses, extra \in ExtraValues :
        logger' = <<[logs |-> updateTransactionStatus(logger[1].logs, id, st, extra)]>>
    /\ UNCHANGED <<ruleVars, riskVars, swapVars, desk, ledger, vault, limiter, pool>>

\* Trading cycles on one portfolio ------------------------------------------
\*
\* A cycle assesses a BUY of its asset on the portfolio as it is (assessRisk
\* takes the portfolio as a parameter and RiskManager keeps no record of what
\* it approved), hands an approved order to executeSwap, and records the
\* position once the swap is confirmed.  Every await is a point where
\* another cycle runs.

CycleCount == 2

CycleIds == 1..CycleCount

deskData(asset) ==
    [tokenAddress |-> asset, liquidityUSD |-> 20000, top10HoldersPercent |-> 50,
     buyCount24h |-> 10, sellCount24h |-> 10, priceChange24h |-> 0, volumeChange24h |-> 0]

deskPortfolio(d) ==
    [totalValueUSD |-> 1000, availableCashUSD |-> 1000, dailyPnLPercent |-> 0,
     maxPositions |-> d.maxPositions,
     positions |-> [i \in 1..Len(d.positions) |->
                       [tokenAddress |-> d.positions[i], unrealizedPnLPercent |-> 0]]]

InFlight(pc) == pc \in {"pending", "submitted"}

\* const assessment = riskManager.assessRisk('BUY', data, portfolio)
AssessCycle ==
    /\ desk # <<>>
    /\ \E c \in CycleIds :
        /\ desk[1].cycles[c].pc = "idle"
        /\ LET d == desk[1]
               ra == assessRisk("BUY", deskData(d.cycles[c].asset), deskPortfolio(d), riskConfig)
           IN  desk' = <<[d EXCEPT !.cycles[c].pc = IF ra.canTrade THEN "approved" ELSE "skipped",
                                   !.cycles[c].seen = <<d.positions>>]>>
    /\ UNCHANGED <<ruleVars, riskVars, swapVars, logger, ledger, vault, limiter, pool>>

\* executeSwap(params) is entered: it requests a quote at once, whatever
\* other calls for the same outputMint are under way.
ExecuteSwapEntered ==
    /\ desk # <<>>
    /\ \E c \in CycleIds :
        /\ desk[1].cycles[c].pc = "approved"
        /\ desk' = <<[desk[1] EXCEPT !.cycles[c].pc = "pending"]>>
    /\ UNCHANGED <<ruleVars, riskVars, swapVars, logger, ledger, vault, limiter, pool>>

\* sendRawTransaction returns a signature; confirmTransaction returns, with
\* or without an error.
SwapProgresses ==
    /\ desk # <<>>
    /\ \E c \in CycleIds :
        \/ /\ desk[1].cycles[c].pc = "pending"
           /\ desk' = <<[desk[1] EXCEPT !.cycles[c].pc = "submitted"]>>
        \/ /\ desk[1].cycles[c].pc = "submitted"
           /\ \E end \in {"confirmed", "failed"} :
               desk' = <<[desk[1] EXCEPT !.cycles[c].pc = end]>>
    /\ UNCHANGED <<ruleVars, riskVars, swapVars, logger, ledger, vault, limiter, pool>>

\* create_position(trade_result): the position of a confirmed BUY is saved.
RecordPosition ==
    /\ desk # <<>>
    /\ \E c \in CycleIds :
        /\ desk[1].cycles[c].pc = "confirmed"
        /\ desk' = <<[desk[1] EXCEPT !.cycles[c].pc = "done",
                                     !.positions = Append(@, desk[1].cycles[c].asset)]>>
    /\ UNCHANGED <<ruleVars, riskVars, swapVars, logger, ledger, vault, limiter, pool>>

\* PositionManager ------------------------------------------------------------
\*
\* Prices are whole numbers; trailing_stop_price is kept in hundredths of a
\* price unit, so that current_price * (1 - trailing_stop_pct / 100) is the
\* whole number current_price * (100 - trailing_stop_pct).  An optional
\* field is <<>> (None) or <<v>>.

MaxOpenPositions == 1

PriceValues == {50, 100, 200}
TrailingPercents == {<<>>, <<0>>, <<10>>, <<50>>}

\* create_position(trade_result, stop_loss_pct, take_profit_pct, trailing_stop_pct)
CreatePosition ==
    /\ ledger # <<>>
    /\ Len(ledger[1].positions) < MaxOpenPositions
    /\ \E t \in Tokens, sl \in {<<>>, <<80>>}, tp \in {<<>>, <<150>>}, pct \in TrailingPercents :
        ledger' = <<[ledger[1] EXCEPT !.positions =
                        Append(@, [token |-> t, entry_price |-> 100, stop_loss |-> sl,
                                   take_profit |-> tp, trailing_stop_pct |-> pct,
                                   trailing_stop_price |-> <<>>])]>>
    /\ UNCHANGED <<ruleVars, riskVars, swapVars, logger, desk, vault, limiter, pool>>

\* A variant that moves the trailing stop with the price in both directions.
update_trailing_stop_follow(position, current_price) ==
    [position EXCEPT !.trailing_stop_price =
        <<current_price * (100 - position.trailing_stop_pct[1])>>]

\* position.update_trailing_stop(current_price): the trailing stop is raised
\* to current_price * (1 - trailing_stop_pct / 100) when that exceeds it.
update_trailing_stop(position, current_price) ==
    LET raised == current_price * (100 - position.trailing_stop_pct[1])
    IN  IF position.trailing_stop_price = <<>> \/ raised > position.trailing_stop_price[1]
        THEN [position EXCEPT !.trailing_stop_price = <<raised>>]
        ELSE position

\* The position after the loop body of check_exits, and its signal if any.
checkPosition(position, current_price) ==
    IF position.trailing_stop_pct # <<>> /\ position.trailing_stop_pct[1] # 0
    THEN update_trailing_stop(position, current_price)
    ELSE position

exitSignal(i, position, current_price) ==
    IF position.stop_loss # <<>> /\ current_price <= position.stop_loss[1]
    THEN <<[action |-> "SELL", position_id |-> i, reason |-> "Stop-loss triggered"]>>
    ELSE IF position.take_profit # <<>> /\ current_price >= position.take_profit[1]
    THEN <<[action |-> "SELL", position_id |-> i, reason |-> "Take-profit triggered"]>>
    ELSE <<>>

RECURSIVE Flatten(_)
Flatten(ss) == IF ss = <<>> THEN <<>> ELSE Head(ss) \o Flatten(Tail(ss))

\* check_exits(): every open position is updated and checked at the current
\* price of its token.
CheckExits ==
    /\ ledger # <<>>
    /\ ledger[1].positions # <<>>
    /\ \E price \in [Tokens -> PriceValues] :
        LET ps == ledger[1].positions
        IN  ledger' =
                <<[positions |-> [i \in 1..Len(ps) |-> checkPosition(ps[i], price[ps[i].token])],
                   prices |-> <<price>>,
                   signals |-> Flatten([i \in 1..Len(ps) |->
                                           exitSignal(i, ps[i], price[ps[i].token])])]>>
    /\ UNCHANGED <<ruleVars, riskVars, swapVars, logger, desk, vault, limiter, pool>>

\* Wallet encryption ----------------------------------------------------------
\*
\* An authenticated cipher: the bytes are combined with a key stream that
\* the password, the salt and the iv determine, and the tag binds the
\* cipher text to them.  Passwords, salts and ivs are numbers, a byte string
\* is a sequence of 0..255 and its encoding a sequence of hexadecimal digits.

Passwords == {1, 2}
Wallets == {[publicKey |-> "pk1", secretKey |-> <<1, 2, 255>>],
            [publicKey |-> "pk2", secretKey |-> <<0, 16, 0>>]}

toHex(bytes) ==
    [i \in 1..(2 * Len(bytes)) |->
        IF i % 2 = 1 THEN bytes[(i + 1) \div 2] \div 16 ELSE bytes[i \div 2] % 16]
fromHex(digits) == [i \in 1..(Len(digits) \div 2) |-> 16 * digits[2 * i - 1] + digits[2 * i]]

keyStream(password, salt, iv, i) == (password * 131 + salt * 17 + iv * 29 + i * 7) % 256

\* encrypt(data, password), with the salt and the iv it draws.
encrypt(data, password, salt, iv) ==
    LET cipher == toHex([i \in 1..Len(data) |->
                            (data[i] + keyStream(password, salt, iv, i)) % 256])
    IN  [encrypted |-> [data |-> cipher, authTag |-> <<password, salt, iv, cipher>>],
         iv |-> iv, salt |-> salt]

\* A variant that does not authenticate the cipher text.
decryptUnauthenticated(encrypted, iv, salt, password) ==
    [error |-> <<>>,
     data |-> <<[i \in 1..(Len(encrypted.data) \div 2) |->
                   (fromHex(encrypted.data)[i] + 256 - keyStream(password, salt, iv, i)) % 256]>>]

\* decrypt(encrypted, iv, salt, password): the data, or the error thrown.
decrypt(encrypted, iv, salt, password) ==
    IF encrypted.authTag # <<password, salt, iv, encrypted.data>>
    THEN [error |-> <<"Unsupported state or unable to authenticate data">>, data |-> <<>>]
    ELSE [error |-> <<>>,
          data |-> <<[i \in 1..(Len(encrypted.data) \div 2) |->
                        (fromHex(encrypted.data)[i] + 256
                            - keyStream(password, salt, iv, i)) % 256]>>]

encryptWallet(wallet, password, salt, iv) ==
    LET e == encrypt(wallet.secretKey, password, salt, iv)
    IN  [publicKey |-> wallet.publicKey, encryptedPrivateKey |-> e.encrypted,
         iv |-> e.iv, salt |-> e.salt]

decryptWallet(encrypted, password) ==
    LET d == decrypt(encrypted.encryptedPrivateKey, encrypted.iv, encrypted.salt, password)
    IN  IF d.error # <<>> THEN [error |-> d.error, publicKey |-> <<>>, secretKey |-> <<>>]
        ELSE [error |-> <<>>, publicKey |-> <<encrypted.publicKey>>, secretKey |-> d.data]

\* const encrypted = encryptWallet(wallet, password)
EncryptWallet ==
    /\ vault # <<>>
    /\ vault[1].stored = <<>>
    /\ \E salt \in {0, 1}, iv \in {0, 1} :
        vault' = <<[vault[1] EXCEPT !.stored =
                       <<encryptWallet(vault[1].wallet, vault[1].password, salt, iv)>>]>>
    /\ UNCHANGED <<ruleVars, riskVars, swapVars, logger, desk, ledger, limiter, pool>>

\* decryptWallet(encrypted, password) with the password or another one.
DecryptWallet ==
    /\ vault # <<>>
    /\ vault[1].stored # <<>>
    /\ vault[1].opened = <<>>
    /\ \E p \in Passwords :
        vault' = <<[vault[1] EXCEPT !.opened =
                       <<[password |-> p, result |-> decryptWallet(vault[1].stored[1], p)]>>]>>
    /\ UNCHANGED <<ruleVars, riskVars, swapVars, logger, desk, ledger, limiter, pool>>

\* Scrapers: rateLimit --------------------------------------------------------
\*
\* Time is the clock Date.now() reads, in milliseconds.  A call of search or
\* fetch awaits rateLimit and sends its request in the continuation, with no
\* timer in between: the request leaves at the time rateLimit stores in
\* lastRequestTime.  A timer fires at its time or later.

minRequestInterval == 3000

CallerCount == 2
MaxRequests == 3
ClockStart == 10000
ClockTickMs == 1000
ClockTicks == 3

CallerIds == 1..CallerCount

Waiting(l) == {c \in CallerIds : l.callers[c].pc = "waiting"}

\* rateLimit() up to its await, or to its end when it does not wait.
RateLimitCalled ==
    /\ limiter # <<>>
    /\ Len(limiter[1].requests) + Cardinality(Waiting(limiter[1])) < MaxRequests
    /\ \E c \in CallerIds :
        /\ limiter[1].callers[c].pc = "idle"
        /\ LET l == limiter[1]
               now == l.now
               timeSinceLastRequest == now - l.lastRequestTime
           IN  limiter' =
                   IF timeSinceLastRequest < minRequestInterval
                   THEN <<[l EXCEPT !.callers[c] =
                              [pc |-> "waiting",
                               wakeAt |-> now + (minRequestInterval - timeSinceLastRequest)]]>>
                   ELSE <<[l EXCEPT !.lastRequestTime = now,
                                    !.requests = Append(@, now)]>>
    /\ UNCHANGED <<ruleVars, riskVars, swapVars, logger, desk, ledger, vault, pool>>

\* The timer of a waiting call fires: rateLimit stores the time and returns.
RateLimitResumed ==
    /\ limiter # <<>>
    /\ \E c \in CallerIds :
        /\ limiter[1].callers[c].pc = "waiting"
        /\ limiter[1].now >= limiter[1].callers[c].wakeAt
        /\ limiter' = <<[limiter[1] EXCEPT !.callers[c] = [pc |-> "idle", wakeAt |-> 0],
                                           !.lastRequestTime = limiter[1].now,
                                           !.requests = Append(@, limiter[1].now)]>>
    /\ UNCHANGED <<ruleVars, riskVars, swapVars, logger, desk, ledger, vault, pool>>

ClockAdvances ==
    /\ limiter # <<>>
    /\ limiter[1].now < ClockStart + ClockTicks * ClockTickMs
    /\ limiter' = <<[limiter[1] EXCEPT !.now = @ + ClockTickMs]>>
    /\ UNCHANGED <<ruleVars, riskVars, swapVars, logger, desk, ledger, vault, pool>>

\* Raydium: calculatePriceImpact ----------------------------------------------
\*
\* The amounts are bigints, the price impact a double: NaN, an infinity or
\* a finite value with its sign.

FEE_NUMERATOR == 9975
FEE_DENOMINATOR == 10000

MaxImpactCalls == 2

AmountsIn == {1, 2, 3, 50, 100}
Reserves == {[reserveIn |-> i, reserveOut |-> o] : i \in {1, 3, 1000, 20001}, o \in {1, 2, 1000}}

\* Number(n) / Number(d) * 100 for whole numbers n and d >= 0.
impactPercent(n, d) ==
    IF d = 0
    THEN [kind |-> IF n = 0 THEN "NaN" ELSE "Infinity", neg |-> n < 0, abs |-> FromInt(0)]
    ELSE [kind |-> "finite", neg |-> n < 0,
          abs |-> FMul(FDiv(FromInt(Abs(n)), FromInt(d)), FromInt(100))]

\* Math.max(0, x)
maxWithZero(x) ==
    IF x.kind = "NaN" THEN x
    ELSE IF x.neg THEN [kind |-> "finite", neg |-> FALSE, abs |-> FromInt(0)]
    ELSE x

\* A variant whose denominator leaves out the amount paid in.
calculatePriceImpactFixedDenominator(amountIn, reserveIn, reserveOut) ==
    LET amountInWithFee == amountIn * FEE_NUMERATOR
        numerator == amountInWithFee * reserveOut
        denominator == reserveIn * FEE_DENOMINATOR
        amountOut == numerator \div denominator
        idealRate == (reserveOut * 10000) \div reserveIn
        actualRate == (amountOut * 10000) \div amountIn
    IN  [amountOut |-> amountOut,
         priceImpact |-> maxWithZero(impactPercent(idealRate - actualRate, idealRate))]

calculatePriceImpact(amountIn, reserveIn, reserveOut) ==
    LET amountInWithFee == amountIn * FEE_NUMERATOR
        numerator == amountInWithFee * reserveOut
        denominator == reserveIn * FEE_DENOMINATOR + amountInWithFee
        amountOut == numerator \div denominator
        idealRate == (reserveOut * 10000) \div reserveIn
        actualRate == (amountOut * 10000) \div amountIn
    IN  [amountOut |-> amountOut,
         priceImpact |-> maxWithZero(impactPercent(idealRate - actualRate, idealRate))]

\* calculatePriceImpact(amountIn, reserveIn, reserveOut) is called and returns.
CalculatePriceImpact ==
    /\ pool # <<>>
    /\ Len(pool[1].results) < MaxImpactCalls
    /\ \E amountIn \in AmountsIn :
        pool' = <<[pool[1] EXCEPT !.results =
                      Append(@, [amountIn |-> amountIn,
                                 result |-> calculatePriceImpact(amountIn, pool[1].reserveIn,
                                                                 pool[1].reserveOut)])]>>
    /\ UNCHANGED <<ruleVars, riskVars, swapVars, logger, desk, ledger, vault, limiter>>

(***************************************************************************)
(* Specifications                                                          *)
(***************************************************************************)

InitRules ==
    /\ ruleCtx \in RuleContexts
    /\ ruleResult = <<>>
    /\ RiskIdle
    /\ SwapIdle
    /\ CompIdle

NextRules == EvaluateRules

SpecRules == InitRules /\ [][NextRules]_vars

InitRulesNaN ==
    /\ ruleCtx \in NaNContexts
    /\ ruleResult = <<>>
    /\ RiskIdle
    /\ SwapIdle
    /\ CompIdle

NextRulesNaN == EvaluateRules

SpecRulesNaN == InitRulesNaN /\ [][NextRulesNaN]_vars

InitRisk ==
    /\ riskConfig \in RiskConfigs
    /\ portfolio \in Portfolios
    /\ exitDecisions = <<>>
    /\ AssessIdle
    /\ RulesIdle
    /\ SwapIdle
    /\ CompIdle

NextRisk ==
    \/ CheckExitConditions
    \/ UpdateConfig

SpecRisk == InitRisk /\ [][NextRisk]_vars

InitAssess ==
    /\ riskConfig \in AssessConfigs
    /\ assessArgs \in {<<a>> : a \in AssessArgsSet}
    /\ assessments = <<>>
    /\ configEpoch = 0
    /\ sizeArgs = <<>>
    /\ positionSize = <<>>
    /\ portfolio = [positions |-> <<>>]
    /\ exitDecisions = <<>>
    /\ RulesIdle
    /\ SwapIdle
    /\ CompIdle

NextAssess ==
    \/ AssessRisk
    \/ UpdateSizeCap

SpecAssess == InitAssess /\ [][NextAssess]_vars

InitSize ==
    /\ riskConfig \in {c \in RiskConfigs : c.stopLossPercent > 0}
    /\ sizeArgs \in {<<a>> : a \in SizeArgsSet}
    /\ positionSize = <<>>
    /\ assessArgs = <<>>
    /\ assessments = <<>>
    /\ configEpoch = 0
    /\ portfolio = [positions |-> <<>>]
    /\ exitDecisions = <<>>
    /\ RulesIdle
    /\ SwapIdle
    /\ CompIdle

NextSize == CalculatePositionSize

SpecSize == InitSize /\ [][NextSize]_vars

InitCap ==
    /\ riskConfig \in AssessConfigs
    /\ assessArgs \in {<<a>> : a \in CapArgsSet}
    /\ sizeArgs \in {<<[confidence |-> c]>> : c \in ConfidenceValues}
    /\ assessments = <<>>
    /\ positionSize = <<>>
    /\ configEpoch = 0
    /\ portfolio = [positions |-> <<>>]
    /\ exitDecisions = <<>>
    /\ RulesIdle
    /\ SwapIdle
    /\ CompIdle

NextCap ==
    \/ AssessForSizing
    \/ SizeFromAssessment

SpecCap == InitCap /\ [][NextCap]_vars

InitSwap ==
    /\ swapPc = "idle"
    /\ swapCfg \in SwapConfigs
    /\ swapParams = <<>>
    /\ quote = <<>>
    /\ buildQuote = <<>>
    /\ transaction = <<>>
    /\ attempt = 0
    /\ signature = <<>>
    /\ lastError = <<>>
    /\ swapResults = <<>>
    /\ swapLog = <<>>
    /\ attemptErrors = <<>>
    /\ waitedMs = 0
    /\ RulesIdle
    /\ RiskIdle
    /\ CompIdle

NextSwap ==
    \/ ExecuteSwap
    \/ QuoteOk
    \/ QuoteFails
    \/ Quote2Ok
    \/ Quote2Fails
    \/ SwapPostOk
    \/ SwapPostFails
    \/ Sign
    \/ SignFails
    \/ SendOk
    \/ SendFails
    \/ BlockhashOk
    \/ BlockhashFails
    \/ ConfirmWait
    \/ ConfirmOk
    \/ ConfirmErr
    \/ ConfirmThrows
    \/ DelayDone

SpecSwap == InitSwap /\ [][NextSwap]_vars

\* One of the stand-alone components is in use, the others and the rest of
\* the program are idle.
InitComponents ==
    /\ RulesIdle
    /\ RiskIdle
    /\ SwapIdle
    /\ \E part \in {"logger", "desk", "ledger", "vault", "limiter", "pool"} :
        /\ logger = IF part = "logger" THEN <<[logs |-> <<>>]>> ELSE <<>>
        /\ desk \in IF part = "desk"
                    THEN {<<[maxPositions |-> m, positions |-> <<>>, cycles |-> cs]>> :
                             m \in {1, 2},
                             cs \in [CycleIds -> {[asset |-> a, pc |-> "idle", seen |-> <<>>] :
                                                     a \in Tokens}]}
                    ELSE {<<>>}
        /\ ledger = IF part = "ledger"
                    THEN <<[positions |-> <<>>, prices |-> <<>>, signals |-> <<>>]>> ELSE <<>>
        /\ vault \in IF part = "vault"
                     THEN {<<[wallet |-> w, password |-> p, stored |-> <<>>, opened |-> <<>>]>> :
                              w \in Wallets, p \in Passwords}
                     ELSE {<<>>}
        /\ limiter = IF part = "limiter"
                     THEN <<[now |-> ClockStart, lastRequestTime |-> 0,
                             callers |-> [c \in CallerIds |-> [pc |-> "idle", wakeAt |-> 0]],
                             requests |-> <<>>]>>
                     ELSE <<>>
        /\ pool \in IF part = "pool"
                    THEN {<<[reserveIn |-> r.reserveIn, reserveOut |-> r.reserveOut,
                             results |-> <<>>]>> : r \in Reserves}
                    ELSE {<<>>}

NextComponents ==
    \/ LogTransaction
    \/ UpdateTransactionStatus
    \/ AssessCycle
    \/ ExecuteSwapEntered
    \/ SwapProgresses
    \/ RecordPosition
    \/ CreatePosition
    \/ CheckExits
    \/ EncryptWallet
    \/ DecryptWallet
    \/ RateLimitCalled
    \/ RateLimitResumed
    \/ ClockAdvances
    \/ CalculatePriceImpact

SpecComponents == InitComponents /\ [][NextComponents]_vars

(***************************************************************************)
(* Claims                                                                  *)
(***************************************************************************)

Triggered(a) == ByAction(ALL_RULES(ruleCtx), a)

\* C1: whenever at least one SELL rule and at least one BUY rule trigger on
\* the context, evaluateRules returns suggestedAction SELL, whatever the
\* number and the confidences of the triggered rules.
C1_SellPrecedence ==
    (ruleResult # <<>> /\ Len(Triggered("SELL")) > 0 /\ Len(Triggered("BUY")) > 0)
        => ruleResult[1].suggestedAction = "SELL"

\* C1 witness: one SELL rule against three BUY rules, and the answer is SELL.
C1_Witness ==
    /\ ruleResult # <<>>
    /\ Len(Triggered("SELL")) = 1
    /\ Len(Triggered("BUY")) = 3
    /\ ruleResult[1].suggestedAction = "SELL"

PositionsAt(t, x) ==
    {i \in 1..Len(portfolio.positions) :
        /\ portfolio.positions[i].tokenAddress = t
        /\ portfolio.positions[i].unrealizedPnLPercent = x}

DecisionsAt(t, x) ==
    {j \in 1..Len(exitDecisions[1]) :
        /\ exitDecisions[1][j].tokenAddress = t
        /\ exitDecisions[1][j].reasoning[2] = x}

\* C3: checkExitConditions returns exactly one decision per position at or
\* below minus stopLossPercent, each a SELL with priority URGENT and
\* confidence VERY_HIGH, and none for a position strictly between the
\* stop-loss and take-profit thresholds.
C3_StopLossExits ==
    exitDecisions # <<>> =>
        \A t \in Tokens, x \in PnLValues :
            /\ x <= -riskConfig.stopLossPercent =>
                /\ Cardinality(DecisionsAt(t, x)) = Cardinality(PositionsAt(t, x))
                /\ \A j \in DecisionsAt(t, x) :
                    /\ exitDecisions[1][j].action = "SELL"
                    /\ exitDecisions[1][j].priority = "URGENT"
                    /\ exitDecisions[1][j].confidence = "VERY_HIGH"
            /\ (x > -riskConfig.stopLossPercent /\ x < riskConfig.takeProfitPercent) =>
                DecisionsAt(t, x) = {}

\* C3 witness: one position exactly at the stop-loss threshold and one
\* between the thresholds; one decision comes back.
C3_Witness ==
    /\ exitDecisions # <<>>
    /\ Len(portfolio.positions) = 2
    /\ portfolio.positions[1].unrealizedPnLPercent = -5
    /\ portfolio.positions[2].unrealizedPnLPercent = -riskConfig.stopLossPercent
    /\ Len(exitDecisions[1]) = 1

Broadcasts == Len(Logged("sendRawTransaction"))

\* C4: the number of broadcast attempts of one swap never exceeds
\* config.maxRetries, and when every attempt has failed executeSwap has
\* returned exactly one result, with success = false and the error of the
\* last attempt.
C4_BoundedRetries ==
    /\ Broadcasts <= swapCfg.maxRetries
    /\ (swapPc = "done" /\ Broadcasts >= 1 /\ Len(attemptErrors) = Broadcasts) =>
        /\ Len(swapResults) = 1
        /\ swapResults[1].success = FALSE
        /\ swapResults[1].error = attemptErrors[Len(attemptErrors)]

\* C4 witness: three attempts, the first and the last failing differently.
C4_Witness ==
    /\ swapPc = "done"
    /\ swapCfg.maxRetries = 3
    /\ Len(attemptErrors) = 3
    /\ attemptErrors[1] # attemptErrors[3]
    /\ swapResults[1].success = FALSE

NoLaterEvent(first, later) ==
    \A i, j \in 1..Len(swapLog) :
        (i < j /\ swapLog[i].op = first) => swapLog[j].op # later

C6_OnChainFailureIsTerminal == NoLaterEvent("onChainFailure", "sendRawTransaction")

\* C7: every attempt broadcasts the one transaction that was signed before
\* the first attempt, and after the first broadcast no quote is requested and
\* nothing is built or signed again.
C7_SamePayloadOnRetry ==
    /\ \A i \in 1..Len(swapLog) :
        swapLog[i].op = "sendRawTransaction" =>
            /\ swapLog[i].payload.signed
            /\ swapLog[i].payload = transaction[1]
    /\ NoLaterEvent("sendRawTransaction", "quoteGet")
    /\ NoLaterEvent("sendRawTransaction", "swapPost")
    /\ NoLaterEvent("sendRawTransaction", "sign")
    /\ Broadcasts > 0 => Len(Logged("sign")) = 1

\* C7 witness: a swap that is broadcast three times.
C7_Witness ==
    /\ Broadcasts = 3
    /\ Len(attemptErrors) >= 2

\* C8: one quote is requested per execution, and the transaction is built
\* from that quote, the one whose amounts and price impact are reported.
C8_BuiltFromCheckedQuote ==
    /\ transaction # <<>> =>
        /\ transaction[1].quote.outAmount = quote[1].outAmount
        /\ transaction[1].quote.slippageBps = quote[1].slippageBps
    /\ Len(Logged("quoteGet")) <= 1

SwapPcs ==
    {"idle", "awaitQuote", "awaitQuote2", "awaitSwap", "sign", "awaitSend", "awaitBlockhash",
     "awaitConfirm", "delay", "done"}

\* C9: executeSwap never ends with an exception; it has returned exactly one
\* SwapResult when it is over and none before; a successful result has a
\* signature and no error, a failed one an error and no signature.
C9_OneResultNoThrow ==
    /\ swapPc \in SwapPcs
    /\ Len(swapResults) = (IF swapPc = "done" THEN 1 ELSE 0)
    /\ swapPc # "done" => ENABLED NextSwap
    /\ \A i \in 1..Len(swapResults) :
        IF swapResults[i].success
        THEN /\ "signature" \in DOMAIN swapResults[i]
             /\ "error" \notin DOMAIN swapResults[i]
        ELSE /\ "error" \in DOMAIN swapResults[i]
             /\ "signature" \notin DOMAIN swapResults[i]

\* C9 witness: a call that failed in the broadcast and was answered with a
\* failed result.
C9_Witness ==
    /\ swapPc = "done"
    /\ Len(attemptErrors) >= 1
    /\ swapResults[1].success = FALSE
    /\ swapResults[1].error = "send failed"

\* C10: the wait for a confirmation is cut off by config.confirmationTimeout.
C10_ConfirmationTimesOut ==
    swapPc = "awaitConfirm" => waitedMs <= swapCfg.confirmationTimeout


(***************************************************************************)
(* Risk assessment and sizing (SpecAssess, SpecSize)                       *)
(***************************************************************************)

In(msg, seq) == \E i \in 1..Len(seq) : seq[i] = msg

AssessedData == assessArgs[1].onChainData
AssessedPortfolio == assessArgs[1].portfolio
AssessedAction == assessArgs[1].action
AssessedHeld == existingPosition(AssessedData, AssessedPortfolio)
AssessmentIndexes == 1..Len(assessments)

C12_DailyLossBlocksEveryAction ==
    \A i \in AssessmentIndexes :
        AssessedPortfolio.dailyPnLPercent <= -riskConfig.dailyLossLimitPercent
            => ~assessments[i].result.canTrade

\* A SELL of a held position, exactly at the limit, blocked by the daily
\* loss alone.
C12_Witness ==
    \E i \in AssessmentIndexes :
        /\ AssessedAction = "SELL"
        /\ AssessedHeld
        /\ AssessedPortfolio.dailyPnLPercent = -riskConfig.dailyLossLimitPercent
        /\ assessments[i].result.blockers = <<"Daily loss limit reached">>
        /\ ~assessments[i].result.canTrade

\* C13: a BUY of a token that is not held, with positions.length >=
\* maxPositions, is blocked with the max-positions blocker; a BUY of a token
\* already held never gets that blocker.
C13_MaxPositionsBlocksNewBuy ==
    \A i \in AssessmentIndexes :
        AssessedAction = "BUY" =>
            /\ (Len(AssessedPortfolio.positions) >= AssessedPortfolio.maxPositions
                    /\ ~AssessedHeld)
                  => /\ ~assessments[i].result.canTrade
                     /\ In("Max positions reached", assessments[i].result.blockers)
            /\ AssessedHeld => ~In("Max positions reached", assessments[i].result.blockers)

\* A BUY at exactly maxPositions, blocked by the position count alone.
C13_Witness ==
    \E i \in AssessmentIndexes :
        /\ AssessedAction = "BUY"
        /\ Len(AssessedPortfolio.positions) = AssessedPortfolio.maxPositions
        /\ ~AssessedHeld
        /\ assessments[i].result.blockers = <<"Max positions reached">>

\* C14: a BUY with liquidityUSD < minLiquidityUSD has canTrade = false, the
\* liquidity blocker and riskScore >= 0.3.
C14_LowLiquidityBlocksBuy ==
    \A i \in AssessmentIndexes :
        (AssessedAction = "BUY" /\ AssessedData.liquidityUSD < riskConfig.minLiquidityUSD)
            => /\ ~assessments[i].result.canTrade
               /\ In("Insufficient liquidity", assessments[i].result.blockers)
               /\ ~DGt(D03, assessments[i].result.riskScore)

\* Low liquidity as the only finding: riskScore is exactly 0.3.
C14_Witness ==
    \E i \in AssessmentIndexes :
        /\ AssessedAction = "BUY"
        /\ AssessedData.liquidityUSD < riskConfig.minLiquidityUSD
        /\ assessments[i].result.blockers = <<"Insufficient liquidity">>
        /\ assessments[i].result.riskScore = D03

BuyOnlyMessages ==
    {"Max positions reached", "Max exposure reached", "Unfavorable buy/sell ratio",
     "Significant price increase", "Abnormal volume spike"}

\* The risk score of the liquidity and holder-concentration checks alone.
ScoreWithoutBuyChecks ==
    LET l == IF AssessedData.liquidityUSD < riskConfig.minLiquidityUSD THEN D03 ELSE D0
    IN  IF AssessedData.top10HoldersPercent > 80 THEN fadd(l, D03)
        ELSE IF AssessedData.top10HoldersPercent > 60 THEN fadd(l, D015)
        ELSE l

\* C15: a SELL gets the 'No position to sell' blocker (and canTrade = false)
\* exactly when the token is not held, and none of the BUY-only checks adds
\* a blocker, a warning or risk score to it.
C15_SellNeedsPosition ==
    \A i \in AssessmentIndexes :
        AssessedAction = "SELL" =>
            LET r == assessments[i].result
            IN  /\ In("No position to sell", r.blockers) <=> ~AssessedHeld
                /\ ~AssessedHeld => ~r.canTrade
                /\ \A m \in BuyOnlyMessages : ~In(m, r.blockers) /\ ~In(m, r.warnings)
                /\ r.riskScore = ScoreWithoutBuyChecks

\* A SELL of a token that is not held, on inputs where every BUY-only check
\* would fire.
C15_Witness ==
    \E i \in AssessmentIndexes :
        /\ AssessedAction = "SELL"
        /\ ~AssessedHeld
        /\ Len(AssessedPortfolio.positions) >= AssessedPortfolio.maxPositions
        /\ AssessedPortfolio.availableCashUSD = 100
        /\ AssessedData.sellCount24h = 30
        /\ AssessedData.priceChange24h = 150
        /\ AssessedData.volumeChange24h = 600
        /\ assessments[i].result.blockers = <<"No position to sell">>
        /\ assessments[i].result.warnings = <<>>
        /\ assessments[i].result.riskScore = D0

\* The half-Kelly percentage in closed form: with p = (500 + 3c)/1000 and
\* b = TP/SL, 100 * ((b*p - (1-p))/b) / 2 = ((500+3c)*TP - (500-3c)*SL) / (20*TP).
HalfKellyPercent(c, cfg) ==
    LET num == (500 + 3 * c) * cfg.takeProfitPercent - (500 - 3 * c) * cfg.stopLossPercent
    IN  Rat(IF num > 0 THEN num ELSE 0, 20 * cfg.takeProfitPercent)

NominalScore ==
    (IF AssessedData.liquidityUSD < riskConfig.minLiquidityUSD THEN 30 ELSE 0)
        + (IF AssessedData.top10HoldersPercent > 80 THEN 30
           ELSE IF AssessedData.top10HoldersPercent > 60 THEN 15 ELSE 0)
        + (IF AssessedAction = "BUY" /\ RLt(buySellRatio(AssessedData), Rat(1, 2))
           THEN 10 ELSE 0)
        + (IF AssessedAction = "BUY" /\ AssessedData.priceChange24h > 100 THEN 20 ELSE 0)
        + (IF AssessedAction = "BUY" /\ AssessedData.volumeChange24h > 500 THEN 10 ELSE 0)

\* C17: maxPositionSizeUSD = min(total * maxPositionSizePercent / 100, cash,
\* 2% of liquidity), halved exactly when the accrued risk score is strictly
\* above 0.3; a score of exactly 0.3 (low liquidity alone, or buy/sell ratio
\* plus price run-up) does not halve it.
C17_HalvedOnlyAboveThreshold ==
    \A i \in AssessmentIndexes :
        LET cfg == assessments[i].config
            base == RMin(RMin(Rat(AssessedPortfolio.totalValueUSD * cfg.maxPositionSizePercent,
                                  100),
                              RInt(AssessedPortfolio.availableCashUSD)),
                         Rat(2 * AssessedData.liquidityUSD, 100))
        IN  assessments[i].result.maxPositionSizeUSD =
                IF NominalScore > 30 THEN RMul(base, Rat(1, 2)) ELSE base


\* C18: every exit decision sells 100% of the position, is tagged STOP_LOSS
\* when the position's P&L is at or below minus stopLossPercent and
\* TAKE_PROFIT when it is at or above takeProfitPercent, for every accepted
\* configuration.
C18_ExitTagMatchesThreshold ==
    exitDecisions # <<>> =>
        \A j \in 1..Len(exitDecisions[1]) :
            LET d == exitDecisions[1][j]
                x == d.reasoning[2]
            IN  /\ d.action = "SELL"
                /\ d.suggestedPositionPercent = 100
                /\ x <= -riskConfig.stopLossPercent => d.rulesTriggers = <<"STOP_LOSS">>
                /\ x >= riskConfig.takeProfitPercent => d.rulesTriggers = <<"TAKE_PROFIT">>


(***************************************************************************)
(* Rule engine: incomplete snapshots and the default decision              *)
(***************************************************************************)

\* C19: when a field the rules read is missing or NaN, evaluateRules returns
\* (it does not throw) a HOLD whose confidence is exactly 0.
C19_InsufficientDataHoldsAtZero ==
    (ruleResult # <<>> /\ HasNaN(ruleCtx)) =>
        /\ ruleResult[1].suggestedAction = "HOLD"
        /\ ruleResult[1].confSum = 0

\* C20: when no rule triggers, evaluateRules returns HOLD with confidence
\* 0.3, level LOW, no triggered rule and exactly one reasoning entry.
C20_DefaultHold ==
    (ruleResult # <<>> /\ Len(ALL_RULES(ruleCtx)) = 0) =>
        /\ ruleResult[1].suggestedAction = "HOLD"
        /\ ruleResult[1].confSum = 300 * ruleResult[1].confLen
        /\ ruleResult[1].confidenceLevel = "LOW"
        /\ ruleResult[1].triggeredRules = <<>>
        /\ Len(ruleResult[1].reasoning) = 1

\* A snapshot on which every rule returns null has been evaluated.
C20_Witness ==
    /\ ruleResult # <<>>
    /\ strongSentimentBuy(ruleCtx) = <<>> /\ influencerMentionBuy(ruleCtx) = <<>>
    /\ volumeBreakoutBuy(ruleCtx) = <<>> /\ accumulationBuy(ruleCtx) = <<>>
    /\ strongSentimentSell(ruleCtx) = <<>> /\ liquidityDrainSell(ruleCtx) = <<>>
    /\ whaleDumpSell(ruleCtx) = <<>> /\ holderExodusSell(ruleCtx) = <<>>
    /\ uncertainHold(ruleCtx) = <<>> /\ conflictingSignalsHold(ruleCtx) = <<>>
    /\ ruleResult[1].branch = "none"


(***************************************************************************)
(* Jupiter client: signing failures and slippage                           *)
(***************************************************************************)

\* C21: when signing throws, executeSwap is over with one failed SwapResult
\* that carries the signer's error, and the transaction has not been
\* broadcast, neither before nor after.
C21_SigningFailureIsFatal ==
    \A i \in 1..Len(swapLog) :
        swapLog[i].op = "signThrows" =>
            /\ i = Len(swapLog)
            /\ Broadcasts = 0
            /\ attempt = 0
            /\ swapPc = "done"
            /\ Len(swapResults) = 1
            /\ ~swapResults[1].success
            /\ swapResults[1].error = swapLog[i].error

\* A swap with retries configured whose signer was locked.
C21_Witness ==
    /\ swapPc = "done"
    /\ swapCfg.maxRetries = 3
    /\ swapLog[Len(swapLog)].op = "signThrows"
    /\ swapResults[1].error = "signer locked"

\* C28: the slippage tolerance of the quote a swap transaction is built from
\* is at most config.maxSlippageBps, and is the default when the caller
\* passes 0.
C28_BuildSlippageCapped ==
    transaction # <<>> =>
        /\ transaction[1].quote.slippageBps <= swapCfg.maxSlippageBps
        /\ swapParams.slippageBps = 0 =>
               transaction[1].quote.slippageBps = swapCfg.defaultSlippageBps


\* C27: the amountUSD that calculatePositionSize returns for an assessment
\* of the same portfolio is at most that assessment's maxPositionSizeUSD,
\* hence at most availableCashUSD and at most 2% of the liquidity.
C27_SizeWithinAssessedCap ==
    (positionSize # <<>> /\ assessArgs # <<>> /\ assessments # <<>>) =>
        /\ FLe(positionSize[1].amountUSD, assessments[1].result.maxPositionSizeUSD)
        /\ FLe(positionSize[1].amountUSD, FromInt(assessArgs[1].portfolio.availableCashUSD))
        /\ FLe(positionSize[1].amountUSD,
               FMul(FromInt(assessArgs[1].onChainData.liquidityUSD), Dbl(2, 100)))

\* C22: the status of a logged transaction only moves forward: a log that is
\* confirmed or failed keeps its status in every later update, and no log
\* returns to pending.
C22_StatusOnlyForward ==
    [][logger # <<>> =>
          \A i \in 1..Len(logger[1].logs) :
              LET old == logger[1].logs[i].status
                  new == logger'[1].logs[i].status
              IN  /\ old \in {"confirmed", "failed"} => new = old
                  /\ new = "pending" => old = "pending"]_vars

\* C23: two BUY orders for distinct assets are never both approved from the
\* same state of the portfolio, and the portfolio never holds more than
\* maxPositions assets.
C23_ApprovalSerialized ==
    desk # <<>> =>
        /\ \A c1, c2 \in CycleIds :
               LET a == desk[1].cycles[c1]
                   b == desk[1].cycles[c2]
               IN  (/\ a.asset # b.asset
                    /\ a.pc \notin {"idle", "skipped"}
                    /\ b.pc \notin {"idle", "skipped"}) => a.seen # b.seen
        /\ Cardinality({desk[1].positions[i] : i \in 1..Len(desk[1].positions)})
               <= desk[1].maxPositions

\* C24: in every reachable state at most one order per asset is in flight
\* (pending or submitted).
C24_OneInFlightPerAsset ==
    desk # <<>> =>
        \A c1, c2 \in CycleIds :
            (/\ c1 # c2
             /\ desk[1].cycles[c1].asset = desk[1].cycles[c2].asset
             /\ InFlight(desk[1].cycles[c1].pc)) => ~InFlight(desk[1].cycles[c2].pc)

C29_RequestsSpaced ==
    limiter # <<>> =>
        \A i, j \in 1..Len(limiter[1].requests) :
            i < j => limiter[1].requests[j] - limiter[1].requests[i] >= minRequestInterval

\* C30: for positive amountIn and reserves, amountOut is less than
\* reserveOut, does not decrease when amountIn increases, and priceImpact is
\* never negative.
C30_SwapBounded ==
    pool # <<>> =>
        /\ \A i \in 1..Len(pool[1].results) :
               /\ pool[1].results[i].result.amountOut < pool[1].reserveOut
               /\ ~pool[1].results[i].result.priceImpact.neg
        /\ \A i, j \in 1..Len(pool[1].results) :
               pool[1].results[i].amountIn <= pool[1].results[j].amountIn =>
                   pool[1].results[i].result.amountOut <= pool[1].results[j].result.amountOut

C30_Witness ==
    /\ pool # <<>>
    /\ Len(pool[1].results) = 2
    /\ pool[1].results[1].amountIn < pool[1].results[2].amountIn
    /\ 0 < pool[1].results[1].result.amountOut
    /\ pool[1].results[1].result.amountOut < pool[1].results[2].result.amountOut
    /\ pool[1].results[2].result.priceImpact.kind = "finite"
    /\ pool[1].results[2].result.priceImpact.abs # FromInt(0)

====
